---- MODULE Spec2Model ----
(***************************************************************************)
(* Model of the video clip pipeline of workers/cloudflare:                 *)
(*   - the clip segmenter (split_video.py: create_clip_definitions,        *)
(*     _split_long_scene),                                                 *)
(*   - the extraction coordinator (split_video.py: VideoSplitter),         *)
(*   - the three orchestrators (pipeline.py: VideoPipeline driven by       *)
(*     main.py: run_pipeline; streaming_pipeline.py:                       *)
(*     StreamingVideoPipeline; local_pipeline.py: LocalVideoPipeline).     *)
(* Times are integers (one unit = one tick of the time grid).              *)
(* Texts and ids are tuples of one-character strings.                      *)
(***************************************************************************)
EXTENDS Integers, Sequences, FiniteSets, TLC

VARIABLES
    variant,             \* which orchestrator runs the job
    pc,                  \* position of the job's coroutine
    video_duration,      \* SceneDetectionResult.video_duration
    scenes,              \* SceneDetectionResult.scenes
    transcript_result,   \* TranscriptResult.segments
    min_clip_duration,   \* process_video argument
    max_clip_duration,   \* process_video argument
    enable_quality_analysis, \* VideoPipeline.enable_quality_analysis
    webhook_url,         \* TRUE when a webhook URL was given
    clip_definitions,    \* the clip definitions handed to split_video
    split_tasks,         \* split_video: state of each clip's task
    clip_results,        \* the ClipResult list split_video returned
    tag_results,         \* the TagResult list tag_clips returned
    upload_tasks,        \* state of each upload task
    upload_results,      \* what the upload stage returned
    stages,              \* the stages started so far, in order
    webhook_calls,       \* the callbacks issued so far, in order
    result,              \* what the pipeline returned, or "none"
    raised,              \* the exception the pipeline raised, or "none"
    active_jobs,         \* main.py: statuses active_jobs[job_id] has had
    exceptions,          \* the stages that raised an exception so far
    tag_tasks,           \* tag_clips: state of each clip's task
    embedding_requests,  \* the batches of texts sent to the embedding API
    embeddings,          \* the ClipEmbedding list generate_embeddings returned
    pairs,               \* the SimilarityPair list handed to build_groups
    same_source,         \* classify_pair argument
    pair_types,          \* what classify_pair returned for each pair
    groups,              \* the ClipGroup list build_groups returned
    call_args,           \* arguments of the call that is followed step by step
    call_locals,         \* its local variables
    call_events,         \* the requests and waits it has made, in order
    call_returned        \* what it returned or raised, or "none"

inputs == <<variant, video_duration, min_clip_duration, max_clip_duration,
            enable_quality_analysis, webhook_url>>

\* the state of a call of call_webhook, _multipart_upload,
\* score_speaking_quality or _split_long_scene followed on its own
stepwise == <<call_args, call_locals, call_events, call_returned>>

\* the state of the tagger and of the duplicate detector
detector == <<tag_tasks, embedding_requests, embeddings, pairs, same_source,
              pair_types, groups>>

vars == <<variant, pc, video_duration, scenes, transcript_result,
          min_clip_duration, max_clip_duration, enable_quality_analysis,
          webhook_url, clip_definitions, split_tasks, clip_results,
          tag_results, upload_tasks, upload_results, stages, webhook_calls,
          result, raised, active_jobs, exceptions, tag_tasks,
          embedding_requests, embeddings, pairs, same_source, pair_types,
          groups, call_args, call_locals, call_events, call_returned>>

\* ------------------------------------------------------------------------
\* Bounds of the model
\* ------------------------------------------------------------------------
\* latest time stamp of a scene (segmenter inputs)
MaxTime == 5
\* the latest time a transcript segment of the segmenter's input ends at
MaxSpeechTime == 4
\* longest list of scenes handed to the segmenter
MaxScenes == 2
\* longest list of transcript segments handed to the segmenter
MaxSegs == 2
\* largest min_duration / max_duration drawn for the segmenter
MaxMinDuration == 2
MaxMaxDuration == 3
\* longest source video of a pipeline job
MaxVideoDuration == 4

\* most clips of a job whose extraction is followed task by task
MaxClips == 4

\* most clips of a job whose uploads are followed task by task
MaxUploadClips == 3

\* most clips the duplicate detector is given
MaxGroupClips == 3
\* longest list of similarity pairs handed to build_groups
MaxPairs == 3
\* most clips handed to generate_embeddings
MaxEmbedClips == 3
\* most clips handed to tag_clips
MaxTagClips == 2
\* largest retries argument of call_webhook
MaxRetries == 3
\* the fastest pace rated, in words per minute
MaxWpm == 300
\* the largest file uploaded, in MiB
MaxFileSize == 25
\* the call of _split_long_scene followed pass by pass: the latest time,
\* the most transcript segments, the largest min_duration and max_duration
MaxLoopTime == 4
MaxLoopSegs == 1
MaxLoopMinDuration == 1
MaxLoopMaxDuration == 2

\* ------------------------------------------------------------------------
\* Program constants
\* ------------------------------------------------------------------------
\* R2Client.upload_file: stop_after_attempt(3)
UPLOAD_ATTEMPTS == 3
\* VideoPipeline.call_webhook: retries
WEBHOOK_RETRIES == 3
\* VideoSplitter.split_video: max_concurrent
SPLIT_MAX_CONCURRENT == 3
\* StreamingVideoPipeline._upload_clips_parallel: asyncio.Semaphore(5)
STREAM_UPLOAD_CONCURRENT == 5

\* duplicate_detect.py thresholds, in hundredths, and the time window of
\* multiple takes, in seconds
DUPLICATE_THRESHOLD == 95
MULTIPLE_TAKES_THRESHOLD == 85
SAME_TOPIC_THRESHOLD == 75
MULTIPLE_TAKES_TIME_WINDOW == 120

\* ------------------------------------------------------------------------
\* Texts
\* ------------------------------------------------------------------------
Whitespace == {" "}

RECURSIVE RStrip(_)
RStrip(t) ==
    IF Len(t) > 0 /\ t[Len(t)] \in Whitespace
    THEN RStrip(SubSeq(t, 1, Len(t) - 1))
    ELSE t

RECURSIVE LStrip(_)
LStrip(t) ==
    IF Len(t) > 0 /\ t[1] \in Whitespace
    THEN LStrip(SubSeq(t, 2, Len(t)))
    ELSE t

Strip(t) == LStrip(RStrip(t))

\* " ".join(texts)
RECURSIVE Join(_)
Join(texts) ==
    IF Len(texts) = 0 THEN << >>
    ELSE IF Len(texts) = 1 THEN texts[1]
    ELSE texts[1] \o <<" ">> \o Join(Tail(texts))

\* seg.text.rstrip().endswith((".", "!", "?"))
EndsWithTerminal(text) ==
    LET t == RStrip(text)
    IN Len(t) > 0 /\ t[Len(t)] \in {".", "!", "?"}

Digit(d) == <<"0", "1", "2", "3", "4", "5", "6", "7", "8", "9">>[d + 1]

RECURSIVE Decimal(_)
Decimal(n) ==
    IF n < 10 THEN <<Digit(n)>>
    ELSE Decimal(n \div 10) \o <<Digit(n % 10)>>

RECURSIVE ZeroPad(_, _)
ZeroPad(t, width) ==
    IF Len(t) >= width THEN t ELSE ZeroPad(<<"0">> \o t, width)

\* f"{clip_index:04d}"
Format04d(n) == ZeroPad(Decimal(n), 4)

\* f"{source_id}_clip_{clip_index:04d}"
ClipId(source_id, clip_index) ==
    source_id \o <<"_", "c", "l", "i", "p", "_">> \o Format04d(clip_index)

\* a minimum that always takes its first argument
MinTakingFirst(a, b) == a

Min(a, b) == IF a < b THEN a ELSE b

\* ------------------------------------------------------------------------
\* Clip segmenter
\* ------------------------------------------------------------------------
ClipDefinition(clip_id, start_time, end_time, transcript, scene_indices) ==
    [clip_id |-> clip_id, start_time |-> start_time, end_time |-> end_time,
     transcript |-> transcript, scene_indices |-> scene_indices]

\* segment.end > start_time and segment.start < end_time
Overlaps(seg, start_time, end_time) ==
    seg.end > start_time /\ seg.start < end_time

RECURSIVE OverlappingSegments(_, _, _)
OverlappingSegments(segments, start_time, end_time) ==
    IF Len(segments) = 0 THEN << >>
    ELSE (IF Overlaps(Head(segments), start_time, end_time)
          THEN <<Head(segments)>> ELSE << >>)
         \o OverlappingSegments(Tail(segments), start_time, end_time)

TextsOf(segments) == [i \in 1..Len(segments) |-> segments[i].text]

GetTranscriptForRange(segments, start_time, end_time) ==
    Strip(Join(TextsOf(OverlappingSegments(segments, start_time, end_time))))

\* scenes.index(scene): 0-based position of the first equal scene
SceneIndex(all_scenes, scene) ==
    (CHOOSE i \in 1..Len(all_scenes) :
        /\ all_scenes[i] = scene
        /\ \A j \in 1..(i - 1) : all_scenes[j] # scene) - 1

\* the no-transcript loop without its length test: the remainder of the
\* scene becomes a clip whatever its length
RECURSIVE SplitEvenlyKeepRemainder(_, _, _, _, _, _, _)
SplitEvenlyKeepRemainder(current_start, end_time, min_duration, max_duration, source_id, clip_index, clips) ==
    IF ~(current_start < end_time) THEN clips
    ELSE
        LET clip_end == Min(current_start + max_duration, end_time)
        IN SplitEvenlyKeepRemainder(clip_end, end_time, min_duration,
                                    max_duration, source_id, clip_index + 1,
                                    Append(clips,
                                        ClipDefinition(
                                            ClipId(source_id, clip_index),
                                            current_start, clip_end,
                                            << >>, << >>)))

\* the no-transcript loop of _split_long_scene
RECURSIVE SplitEvenly(_, _, _, _, _, _, _)
SplitEvenly(current_start, end_time, min_duration, max_duration, source_id, clip_index, clips) ==
    IF ~(current_start < end_time) THEN clips
    ELSE
        LET clip_end == Min(current_start + max_duration, end_time)
            emit == clip_end - current_start >= min_duration
        IN SplitEvenly(clip_end, end_time, min_duration, max_duration,
                       source_id,
                       IF emit THEN clip_index + 1 ELSE clip_index,
                       IF emit
                       THEN Append(clips,
                                ClipDefinition(ClipId(source_id, clip_index),
                                               current_start, clip_end,
                                               << >>, << >>))
                       ELSE clips)

\* the for loop of _split_long_scene that looks for the best break point;
\* st = [best_break, segment_idx, accumulated_text], j = position in
\* relevant_segments (1-based)
RECURSIVE FindBreak(_, _, _, _, _, _)
FindBreak(relevant, j, current_start, min_duration, max_duration, st) ==
    IF j > Len(relevant) THEN st
    ELSE
        LET seg == relevant[j]
            target_end == current_start + max_duration
        IN
        IF seg.start >= target_end THEN st
        ELSE IF seg.start >= current_start THEN
            LET acc == Append(st.accumulated_text, seg.text)
            IN
            IF seg.end >= current_start + min_duration THEN
                IF EndsWithTerminal(seg.text)
                   /\ 10 * seg.end >= 10 * current_start + 7 * max_duration
                THEN [best_break |-> seg.end,
                      segment_idx |-> st.segment_idx,
                      accumulated_text |-> acc]
                ELSE FindBreak(relevant, j + 1, current_start,
                               min_duration, max_duration,
                               [best_break |-> seg.end,
                                segment_idx |-> st.segment_idx + 1,
                                accumulated_text |-> acc])
            ELSE FindBreak(relevant, j + 1, current_start,
                           min_duration, max_duration,
                           [best_break |-> st.best_break,
                            segment_idx |-> st.segment_idx + 1,
                            accumulated_text |-> acc])
        ELSE FindBreak(relevant, j + 1, current_start,
                       min_duration, max_duration, st)

\* the while loop of _split_long_scene over transcript segments
RECURSIVE SplitAtSegments(_, _, _, _, _, _, _, _, _)
SplitAtSegments(current_start, end_time, relevant, segment_idx, min_duration, max_duration, source_id, clip_index, clips) ==
    IF ~(current_start < end_time /\ segment_idx < Len(relevant)) THEN clips
    ELSE
        LET st == FindBreak(relevant, segment_idx + 1, current_start,
                            min_duration, max_duration,
                            [best_break |-> current_start + min_duration,
                             segment_idx |-> segment_idx,
                             accumulated_text |-> << >>])
            clip_end == Min(st.best_break, end_time)
            emit == clip_end - current_start >= min_duration
        IN SplitAtSegments(clip_end, end_time, relevant, st.segment_idx,
                           min_duration, max_duration, source_id,
                           IF emit THEN clip_index + 1 ELSE clip_index,
                           IF emit
                           THEN Append(clips,
                                    ClipDefinition(
                                        ClipId(source_id, clip_index),
                                        current_start, clip_end,
                                        Strip(Join(st.accumulated_text)),
                                        << >>))
                           ELSE clips)

\* a split that runs one second past the end of the scene
SplitLongScenePastEnd(start_time, end_time, transcript_segments, min_duration, max_duration, source_id, start_index) ==
    LET relevant == OverlappingSegments(transcript_segments,
                                        start_time, end_time)
    IN IF Len(relevant) = 0
       THEN SplitEvenly(start_time, end_time + 1, min_duration, max_duration,
                        source_id, start_index, << >>)
       ELSE SplitAtSegments(start_time, end_time + 1, relevant, 0,
                            min_duration, max_duration, source_id,
                            start_index, << >>)

SplitLongScene(start_time, end_time, transcript_segments, min_duration, max_duration, source_id, start_index) ==
    LET relevant == OverlappingSegments(transcript_segments,
                                        start_time, end_time)
    IN IF Len(relevant) = 0
       THEN SplitEvenly(start_time, end_time, min_duration, max_duration,
                        source_id, start_index, << >>)
       ELSE SplitAtSegments(start_time, end_time, relevant, 0,
                            min_duration, max_duration, source_id,
                            start_index, << >>)

\* the clips one scene contributes, numbered from clip_index
SceneClips(all_scenes, scene, transcript_segments, min_duration, max_duration, source_id, clip_index) ==
    IF scene.duration < min_duration THEN << >>
    ELSE IF scene.duration <= max_duration
    THEN <<ClipDefinition(ClipId(source_id, clip_index),
                          scene.start_time, scene.end_time,
                          GetTranscriptForRange(transcript_segments,
                                                scene.start_time,
                                                scene.end_time),
                          <<SceneIndex(all_scenes, scene)>>)>>
    ELSE SplitLongScene(scene.start_time, scene.end_time,
                        transcript_segments, min_duration, max_duration,
                        source_id, clip_index)

\* the loop over the scenes with clip_index advanced by one per scene,
\* whatever the number of sub-clips the scene gave
RECURSIVE CreateClipsCountingScenes(_, _, _, _, _, _, _, _)
CreateClipsCountingScenes(all_scenes, i, transcript_segments, min_duration, max_duration, source_id, clip_index, clips) ==
    IF i > Len(all_scenes) THEN clips
    ELSE
        LET new == SceneClips(all_scenes, all_scenes[i], transcript_segments,
                              min_duration, max_duration, source_id,
                              clip_index)
        IN CreateClipsCountingScenes(all_scenes, i + 1, transcript_segments,
                                     min_duration, max_duration, source_id,
                                     clip_index + 1, clips \o new)

RECURSIVE CreateClipsFrom(_, _, _, _, _, _, _, _)
CreateClipsFrom(all_scenes, i, transcript_segments, min_duration, max_duration, source_id, clip_index, clips) ==
    IF i > Len(all_scenes) THEN clips
    ELSE
        LET new == SceneClips(all_scenes, all_scenes[i], transcript_segments,
                              min_duration, max_duration, source_id,
                              clip_index)
        IN CreateClipsFrom(all_scenes, i + 1, transcript_segments,
                           min_duration, max_duration, source_id,
                           clip_index + Len(new), clips \o new)

CreateClipDefinitions(all_scenes, transcript_segments, min_duration, max_duration, source_id) ==
    CreateClipsFrom(all_scenes, 1, transcript_segments, min_duration,
                    max_duration, source_id, 0, << >>)

\* no result yet
NoResult == [status |-> "none", clips |-> << >>, error |-> ""]

\* ------------------------------------------------------------------------
\* Inputs
\* ------------------------------------------------------------------------
SourceId == <<"s">>

\* one text that ends a sentence (with trailing blank) and one that does not
Texts == { <<"o", "k", ".", " ">>, <<"u", "m">> }

SceneBoundary(start_time, end_time) ==
    [start_time |-> start_time, end_time |-> end_time,
     duration |-> end_time - start_time]

TranscriptSegment(text, start, end) ==
    [text |-> text, start |-> start, end |-> end]

\* lists of at most n scenes in time order, none overlapping the next,
\* starting at or after from and ending by horizon
RECURSIVE SceneLists(_, _, _)
SceneLists(n, from, horizon) ==
    {<< >>} \cup
    (IF n = 0 THEN {}
     ELSE UNION { UNION { { <<SceneBoundary(a, b)>> \o rest :
                                rest \in SceneLists(n - 1, b, horizon) } :
                          b \in (a + 1)..horizon } :
                  a \in from..(horizon - 1) })

RECURSIVE SegmentLists(_, _, _)
SegmentLists(n, from, horizon) ==
    {<< >>} \cup
    (IF n = 0 THEN {}
     ELSE UNION { UNION { UNION { { <<TranscriptSegment(t, a, b)>> \o rest :
                                rest \in SegmentLists(n - 1, b, horizon) } :
                                  t \in Texts } :
                          b \in (a + 1)..horizon } :
                  a \in from..(horizon - 1) })

\* ------------------------------------------------------------------------
\* The segmenter on its own: inputs drawn from the bounded sets, then one
\* call of create_clip_definitions
\* ------------------------------------------------------------------------
\* no call is followed on its own
CallIdle ==
    /\ call_args = << >>
    /\ call_locals = << >>
    /\ call_events = << >>
    /\ call_returned = "none"

\* neither the tagger nor the duplicate detector has been called
DetectorIdle ==
    /\ tag_tasks = << >>
    /\ embedding_requests = << >>
    /\ embeddings = << >>
    /\ pairs = << >>
    /\ same_source = TRUE
    /\ pair_types = << >>
    /\ groups = << >>

SegInit ==
    /\ pc = "seg_input"
    /\ variant = "segmenter"
    /\ CallIdle
    /\ scenes \in SceneLists(MaxScenes, 0, MaxTime)
    /\ transcript_result \in SegmentLists(MaxSegs, 0, MaxSpeechTime)
    /\ min_clip_duration \in 1..MaxMinDuration
    /\ max_clip_duration \in 1..MaxMaxDuration
    /\ video_duration = 0
    /\ enable_quality_analysis = FALSE
    /\ webhook_url = FALSE
    /\ clip_definitions = << >>
    /\ split_tasks = << >>
    /\ clip_results = << >>
    /\ tag_results = << >>
    /\ upload_tasks = << >>
    /\ upload_results = << >>
    /\ stages = << >>
    /\ webhook_calls = << >>
    /\ result = NoResult
    /\ raised = "none"
    /\ active_jobs = << >>
    /\ exceptions = << >>
    /\ DetectorIdle

SegCreateClipDefinitions ==
    /\ pc = "seg_input"
    /\ clip_definitions' = CreateClipDefinitions(scenes, transcript_result,
                                min_clip_duration, max_clip_duration, SourceId)
    /\ pc' = "seg_done"
    /\ UNCHANGED <<inputs, stepwise, detector, scenes, transcript_result, split_tasks,
                   clip_results, tag_results, upload_tasks, upload_results,
                   stages, webhook_calls, result, raised, active_jobs,
                   exceptions>>

SegNext == SegCreateClipDefinitions

SegSpec == SegInit /\ [][SegNext]_vars

\* ------------------------------------------------------------------------
\* Pipeline jobs
\* ------------------------------------------------------------------------
\* the scene lists detect_scenes can return for a video of duration d:
\* consecutive scenes from 0 to d (one scene when no cut is detected)
RECURSIVE DetectedScenes(_, _)
DetectedScenes(from, d) ==
    UNION { { <<SceneBoundary(from, b)>> \o rest :
                rest \in (IF b = d THEN {<< >>} ELSE DetectedScenes(b, d)) } :
            b \in (from + 1)..d }

\* the transcripts of the modelled jobs: silence, or one segment that
\* spans the video
JobTranscripts ==
    {<< >>} \cup {<<TranscriptSegment(t, 0, video_duration)>> : t \in Texts}

\* the request parameters of the modelled jobs, in ticks
JobDurations == { <<2, 3>> }

Init ==
    /\ variant \in {"video", "streaming", "local"}
    /\ CallIdle
    /\ pc = (IF variant = "video" THEN "pending"
             ELSE IF variant = "streaming" THEN "download" ELSE "save")
    /\ video_duration \in 1..MaxVideoDuration
    /\ \E d \in JobDurations :
          min_clip_duration = d[1] /\ max_clip_duration = d[2]
    /\ enable_quality_analysis \in
          (IF variant = "video" THEN BOOLEAN ELSE {FALSE})
    /\ webhook_url \in (IF variant = "streaming" THEN BOOLEAN
                        ELSE {variant = "video"})
    /\ scenes = << >>
    /\ transcript_result = << >>
    /\ clip_definitions = << >>
    /\ split_tasks = << >>
    /\ clip_results = << >>
    /\ tag_results = << >>
    /\ upload_tasks = << >>
    /\ upload_results = << >>
    /\ stages = << >>
    /\ webhook_calls = << >>
    /\ result = NoResult
    /\ raised = "none"
    /\ active_jobs = (IF variant = "video" THEN <<"pending">> ELSE << >>)
    /\ exceptions = << >>
    /\ DetectorIdle

Last(seq) == seq[Len(seq)]

ClipIds(clips) == [i \in 1..Len(clips) |-> clips[i].clip_id]

WebhookCall(status, error_message, clips) ==
    [status |-> status, error_message |-> error_message, clips |-> clips,
     posts |-> 0, delivered |-> FALSE]

FailedResult(error_message) ==
    [status |-> "failed", clips |-> << >>, error |-> error_message]

\* LocalProcessingResult has no status field: error is empty on success
LocalResult(clips, error) == [status |-> "", clips |-> clips, error |-> error]

\* the stage went through: on to the next one
Continue(next) ==
    /\ pc' = next
    /\ UNCHANGED <<webhook_calls, result, raised, active_jobs, exceptions>>

\* an except clause that raises without sending the failure callback
FailWithoutCallback(message) ==
    /\ exceptions' = Append(exceptions, message)
    /\ IF variant = "video"
       THEN /\ raised' = "PipelineError"
            /\ active_jobs' = Append(active_jobs, "failed")
            /\ pc' = "done"
            /\ UNCHANGED <<webhook_calls, result>>
       ELSE /\ result' = [status |-> IF variant = "streaming" THEN "failed"
                                     ELSE "",
                          clips |-> << >>, error |-> message]
            /\ pc' = "done"
            /\ UNCHANGED <<webhook_calls, raised, active_jobs>>

\* the except clause of the running pipeline, entered with str(e) = message
Fail(message) ==
    /\ exceptions' = Append(exceptions, message)
    /\ IF variant = "video"
       THEN /\ webhook_calls' = Append(webhook_calls,
                                   WebhookCall("failed", message, << >>))
            /\ pc' = "webhook"
            /\ UNCHANGED <<result, raised, active_jobs>>
       ELSE IF variant = "streaming" /\ webhook_url
       THEN /\ webhook_calls' = Append(webhook_calls,
                                   WebhookCall("failed", message, << >>))
            /\ pc' = "webhook"
            /\ UNCHANGED <<result, raised, active_jobs>>
       ELSE IF variant = "streaming"
       THEN /\ result' = FailedResult(message)
            /\ pc' = "done"
            /\ UNCHANGED <<webhook_calls, raised, active_jobs>>
       ELSE /\ result' = LocalResult(<< >>, message)
            /\ pc' = "done"
            /\ UNCHANGED <<webhook_calls, raised, active_jobs>>

\* a stage whose exception is logged and swallowed
RunStageSwallowing(name, next, ok) ==
    /\ pc = name
    /\ stages' = Append(stages, name)
    /\ exceptions' = IF ok THEN exceptions ELSE Append(exceptions, name)
    /\ pc' = next
    /\ UNCHANGED <<webhook_calls, result, raised, active_jobs>>

\* one stage that either goes through or raises
RunStage(name, next, ok) ==
    /\ pc = name
    /\ stages' = Append(stages, name)
    /\ IF ok THEN Continue(next) ELSE Fail(name)

\* main.py run_pipeline: the background task starts
RunPipelineStart ==
    /\ pc = "pending"
    /\ variant = "video"
    /\ active_jobs' = Append(active_jobs, "downloading")
    /\ pc' = "download"
    /\ UNCHANGED <<inputs, stepwise, detector, scenes, transcript_result, clip_definitions,
                   split_tasks, clip_results, tag_results, upload_tasks,
                   upload_results, stages, webhook_calls, result, raised,
                   exceptions>>

\* VideoPipeline.process_video, step 1
DownloadVideo ==
    /\ variant = "video"
    /\ \E ok \in BOOLEAN : RunStage("download", "transcribe", ok)
    /\ UNCHANGED <<inputs, stepwise, detector, scenes, transcript_result, clip_definitions,
                   split_tasks, clip_results, tag_results, upload_tasks,
                   upload_results>>

\* VideoPipeline.process_video, step 2
TranscribeVideo ==
    /\ variant = "video"
    /\ \E ok \in BOOLEAN :
          /\ RunStage("transcribe", "detect_scenes", ok)
          /\ IF ok
             THEN transcript_result' \in JobTranscripts
             ELSE UNCHANGED transcript_result
    /\ UNCHANGED <<inputs, stepwise, detector, scenes, clip_definitions, split_tasks,
                   clip_results, tag_results, upload_tasks, upload_results>>

\* SceneDetector.detect_scenes, called by each pipeline
DetectScenes ==
    /\ \E ok \in BOOLEAN :
          /\ RunStage("detect_scenes", "create_clips", ok)
          /\ IF ok
             THEN scenes' \in DetectedScenes(0, video_duration)
             ELSE UNCHANGED scenes
    /\ UNCHANGED <<inputs, stepwise, detector, transcript_result, clip_definitions, split_tasks,
                   clip_results, tag_results, upload_tasks, upload_results>>

\* VideoPipeline.process_video, step 4
VideoCreateClips ==
    /\ variant = "video"
    /\ pc = "create_clips"
    /\ stages' = Append(stages, "create_clips")
    /\ clip_definitions' = CreateClipDefinitions(scenes, transcript_result,
                                min_clip_duration, max_clip_duration, SourceId)
    /\ IF Len(clip_definitions') = 0
       THEN Fail("No valid clips could be created from video")
       ELSE Continue("split")
    /\ UNCHANGED <<inputs, stepwise, detector, scenes, transcript_result, split_tasks,
                   clip_results, tag_results, upload_tasks, upload_results>>

\* ------------------------------------------------------------------------
\* VideoSplitter.split_video: one task per clip behind a semaphore
\* ------------------------------------------------------------------------
ClipResult(clip) ==
    [clip_id |-> clip.clip_id, start_time |-> clip.start_time,
     end_time |-> clip.end_time,
     duration |-> clip.end_time - clip.start_time,
     transcript |-> clip.transcript]

\* the tasks that hold the semaphore
Splitting(tasks) ==
    {i \in 1..Len(tasks) : tasks[i] \in {"extract", "thumbnail"}}

\* a gather that gives up at the first task that raised
RECURSIVE ResultsUntilFailure(_, _, _)
ResultsUntilFailure(clips, tasks, i) ==
    IF i > Len(clips) \/ tasks[i] # "done" THEN << >>
    ELSE <<ClipResult(clips[i])>> \o ResultsUntilFailure(clips, tasks, i + 1)

\* the results that are not exceptions, in task order
RECURSIVE SuccessfulResults(_, _, _)
SuccessfulResults(clips, tasks, i) ==
    IF i > Len(clips) THEN << >>
    ELSE (IF tasks[i] = "done" THEN <<ClipResult(clips[i])>> ELSE << >>)
         \o SuccessfulResults(clips, tasks, i + 1)

AfterSplit ==
    IF variant = "video" THEN "tag"
    ELSE IF variant = "streaming" THEN "upload" ELSE "read"

\* split_video up to the gather: the source file is checked, tasks are made
SplitVideoStart ==
    /\ pc = "split"
    /\ stages' = Append(stages, "split")
    /\ \E exists \in BOOLEAN :
          IF exists
          THEN /\ split_tasks' = [i \in 1..Len(clip_definitions) |-> "waiting"]
               /\ Continue("splitting")
          ELSE /\ UNCHANGED split_tasks
               /\ Fail("split")
    /\ UNCHANGED <<inputs, stepwise, detector, scenes, transcript_result, clip_definitions,
                   clip_results, tag_results, upload_tasks, upload_results>>

\* a task that starts ffmpeg without waiting for the semaphore
SplitWithoutSemaphore(i) ==
    /\ pc = "splitting"
    /\ split_tasks[i] = "waiting"
    /\ split_tasks' = [split_tasks EXCEPT ![i] = "extract"]
    /\ UNCHANGED <<inputs, stepwise, detector, pc, scenes, transcript_result, clip_definitions,
                   clip_results, tag_results, upload_tasks, upload_results,
                   stages, webhook_calls, result, raised, active_jobs,
                   exceptions>>

\* process_with_semaphore: a task gets the semaphore and starts ffmpeg
SplitAcquire(i) ==
    /\ pc = "splitting"
    /\ split_tasks[i] = "waiting"
    /\ Cardinality(Splitting(split_tasks)) < SPLIT_MAX_CONCURRENT
    /\ split_tasks' = [split_tasks EXCEPT ![i] = "extract"]
    /\ UNCHANGED <<inputs, stepwise, detector, pc, scenes, transcript_result, clip_definitions,
                   clip_results, tag_results, upload_tasks, upload_results,
                   stages, webhook_calls, result, raised, active_jobs,
                   exceptions>>

\* extract_clip ends: ffmpeg succeeded, or failed or timed out
ExtractClip(i) ==
    /\ pc = "splitting"
    /\ split_tasks[i] = "extract"
    /\ \E ok \in BOOLEAN :
          split_tasks' = [split_tasks EXCEPT
                             ![i] = IF ok THEN "thumbnail" ELSE "failed"]
    /\ UNCHANGED <<inputs, stepwise, detector, pc, scenes, transcript_result, clip_definitions,
                   clip_results, tag_results, upload_tasks, upload_results,
                   stages, webhook_calls, result, raised, active_jobs,
                   exceptions>>

\* generate_thumbnail ends, and with it split_single_clip
GenerateThumbnail(i) ==
    /\ pc = "splitting"
    /\ split_tasks[i] = "thumbnail"
    /\ \E ok \in BOOLEAN :
          split_tasks' = [split_tasks EXCEPT
                             ![i] = IF ok THEN "done" ELSE "failed"]
    /\ UNCHANGED <<inputs, stepwise, detector, pc, scenes, transcript_result, clip_definitions,
                   clip_results, tag_results, upload_tasks, upload_results,
                   stages, webhook_calls, result, raised, active_jobs,
                   exceptions>>

\* the gather returns: the exceptions are filtered out
SplitVideoGather ==
    /\ pc = "splitting"
    /\ \A i \in 1..Len(split_tasks) : split_tasks[i] \in {"done", "failed"}
    /\ clip_results' = SuccessfulResults(clip_definitions, split_tasks, 1)
    /\ Continue(AfterSplit)
    /\ UNCHANGED <<inputs, stepwise, detector, scenes, transcript_result, clip_definitions,
                   split_tasks, tag_results, upload_tasks, upload_results,
                   stages>>

\* ------------------------------------------------------------------------
\* VideoPipeline.process_video, steps 6 to 12
\* ------------------------------------------------------------------------
\* ClipTagger.tag_clips: a clip whose call failed gets the fallback result
TagResult(clip, failed) ==
    [clip_id |-> clip.clip_id,
     primary_tag |-> IF failed THEN "b_roll" ELSE "tagged",
     fallback |-> failed]

TagClips ==
    /\ variant = "video"
    /\ \E ok \in BOOLEAN :
          /\ RunStage("tag", "upload", ok)
          /\ IF ok
             THEN \E failed \in SUBSET (1..Len(clip_results)) :
                     tag_results' = [i \in 1..Len(clip_results) |->
                                        TagResult(clip_results[i], i \in failed)]
             ELSE UNCHANGED tag_results
    /\ UNCHANGED <<inputs, stepwise, detector, scenes, transcript_result, clip_definitions,
                   split_tasks, clip_results, upload_tasks, upload_results>>

UploadTask(attempts, status) == [attempts |-> attempts, status |-> status]

\* upload_clips up to the gather: two upload_file tasks per clip
UploadClipsStart ==
    /\ variant = "video"
    /\ pc = "upload"
    /\ stages' = Append(stages, "upload")
    /\ upload_tasks' = [k \in 1..(2 * Len(clip_results)) |->
                           UploadTask(0, "running")]
    /\ Continue("uploading")
    /\ UNCHANGED <<inputs, stepwise, detector, scenes, transcript_result, clip_definitions,
                   split_tasks, clip_results, tag_results, upload_results>>

\* R2Client.upload_file under its retry decorator: one attempt ends; the
\* attempt count lives as long as the retry loop does
UploadFileAttempt(task, ok) ==
    IF ok THEN UploadTask(0, "ok")
    ELSE IF task.attempts + 1 >= UPLOAD_ATTEMPTS
    THEN UploadTask(0, "failed")
    ELSE UploadTask(task.attempts + 1, "running")

UploadFile(k) ==
    /\ variant = "video"
    /\ pc = "uploading"
    /\ upload_tasks[k].status = "running"
    /\ \E ok \in BOOLEAN :
          upload_tasks' = [upload_tasks EXCEPT
                              ![k] = UploadFileAttempt(upload_tasks[k], ok)]
    /\ UNCHANGED <<inputs, stepwise, detector, pc, scenes, transcript_result, clip_definitions,
                   split_tasks, clip_results, tag_results, upload_results,
                   stages, webhook_calls, result, raised, active_jobs,
                   exceptions>>

\* failures looked for among the video objects only (the odd tasks)
UploadFailuresOfVideos(tasks) ==
    {k \in 1..Len(tasks) : tasks[k].status = "failed" /\ k % 2 = 1}

\* upload_clips: the results of the gather that are exceptions
UploadFailures(tasks) ==
    {k \in 1..Len(tasks) : tasks[k].status = "failed"}

VideoKey(clip) == <<"clips", clip.clip_id, "mp4">>
ThumbKey(clip) == <<"clips", clip.clip_id, "thumb">>

AfterUpload == IF enable_quality_analysis THEN "analyze_errors" ELSE "build"

\* upload_clips from the gather on
UploadClipsGather ==
    /\ variant = "video"
    /\ pc = "uploading"
    /\ \A k \in 1..Len(upload_tasks) : upload_tasks[k].status # "running"
    /\ IF UploadFailures(upload_tasks) # {}
       THEN /\ UNCHANGED upload_results
            /\ Fail("upload")
       ELSE /\ upload_results' = [i \in 1..Len(clip_results) |->
                                     [video_key |-> VideoKey(clip_results[i]),
                                      thumbnail_key |-> ThumbKey(clip_results[i])]]
            /\ Continue(AfterUpload)
    /\ UNCHANGED <<inputs, stepwise, detector, scenes, transcript_result, clip_definitions,
                   split_tasks, clip_results, tag_results, upload_tasks,
                   stages>>

\* steps 8 to 11, run when enable_quality_analysis is set
AnalyzeClips ==
    /\ variant = "video"
    /\ \E ok \in BOOLEAN : RunStage("analyze_errors", "rate", ok)
    /\ UNCHANGED <<inputs, stepwise, detector, scenes, transcript_result, clip_definitions,
                   split_tasks, clip_results, tag_results, upload_tasks,
                   upload_results>>

RateClips ==
    /\ variant = "video"
    /\ \E ok \in BOOLEAN : RunStage("rate", "embed", ok)
    /\ UNCHANGED <<inputs, stepwise, detector, scenes, transcript_result, clip_definitions,
                   split_tasks, clip_results, tag_results, upload_tasks,
                   upload_results>>

GenerateEmbeddings ==
    /\ variant = "video"
    /\ \E ok \in BOOLEAN : RunStage("embed", "group", ok)
    /\ UNCHANGED <<inputs, stepwise, detector, scenes, transcript_result, clip_definitions,
                   split_tasks, clip_results, tag_results, upload_tasks,
                   upload_results>>

FindGroups ==
    /\ variant = "video"
    /\ \E ok \in BOOLEAN : RunStage("group", "build", ok)
    /\ UNCHANGED <<inputs, stepwise, detector, scenes, transcript_result, clip_definitions,
                   split_tasks, clip_results, tag_results, upload_tasks,
                   upload_results>>

\* step 12: the result is built and call_webhook is entered with "completed"
BuildResult ==
    /\ variant = "video"
    /\ pc = "build"
    /\ stages' = Append(stages, "build")
    /\ webhook_calls' = Append(webhook_calls,
                            WebhookCall("completed", "", ClipIds(clip_results)))
    /\ pc' = "webhook"
    /\ UNCHANGED <<inputs, stepwise, detector, scenes, transcript_result, clip_definitions,
                   split_tasks, clip_results, tag_results, upload_tasks,
                   upload_results, result, raised, active_jobs, exceptions>>

CompletedResult ==
    [status |-> "completed", clips |-> ClipIds(clip_results), error |-> ""]

\* a job whose callback was not delivered counts as failed
JobOutcomeByDelivery(call, delivered) ==
    IF delivered THEN call.status ELSE "failed"

\* how process_video ends once call_webhook has returned: the value
\* call_webhook returns is not looked at
JobOutcome(call, delivered) == call.status

\* VideoPipeline.call_webhook: one pass of the retry loop; when the loop
\* ends, process_video returns or raises and run_pipeline records it
CallWebhook ==
    /\ variant = "video"
    /\ pc = "webhook"
    /\ \E outcome \in {"ok", "http_error", "request_error"} :
          LET call == Last(webhook_calls)
              posts == call.posts + 1
              over == outcome = "ok" \/ posts >= WEBHOOK_RETRIES
          IN /\ webhook_calls' =
                    [webhook_calls EXCEPT ![Len(webhook_calls)] =
                        [call EXCEPT !.posts = posts,
                                     !.delivered = (outcome = "ok")]]
             /\ IF ~over
                THEN UNCHANGED <<pc, result, raised, active_jobs>>
                ELSE IF JobOutcome(call, outcome = "ok") = "completed"
                THEN /\ result' = CompletedResult
                     /\ active_jobs' = Append(active_jobs, "completed")
                     /\ pc' = "done"
                     /\ UNCHANGED raised
                ELSE /\ raised' = "PipelineError"
                     /\ active_jobs' = Append(active_jobs, "failed")
                     /\ pc' = "done"
                     /\ UNCHANGED result
    /\ UNCHANGED <<inputs, stepwise, detector, scenes, transcript_result, clip_definitions,
                   split_tasks, clip_results, tag_results, upload_tasks,
                   upload_results, stages, exceptions>>

\* ------------------------------------------------------------------------
\* StreamingVideoPipeline.process_and_upload
\* ------------------------------------------------------------------------
\* step 1
StreamDownload ==
    /\ variant = "streaming"
    /\ \E ok \in BOOLEAN : RunStage("download", "transcribe", ok)
    /\ UNCHANGED <<inputs, stepwise, detector, scenes, transcript_result, clip_definitions,
                   split_tasks, clip_results, tag_results, upload_tasks,
                   upload_results>>

\* step 2, _transcribe_video: None when there is no transcriber or when
\* transcribe_video_chunked raises
StreamTranscribe ==
    /\ variant = "streaming"
    /\ pc = "transcribe"
    /\ stages' = Append(stages, "transcribe")
    /\ \E outcome \in {"ok", "no_transcriber", "exception"} :
          /\ IF outcome = "ok"
             THEN transcript_result' \in JobTranscripts
             ELSE transcript_result' = << >>
          /\ exceptions' = IF outcome = "exception"
                           THEN Append(exceptions, "transcribe")
                           ELSE exceptions
    /\ pc' = "detect_scenes"
    /\ UNCHANGED <<inputs, stepwise, detector, scenes, clip_definitions, split_tasks,
                   clip_results, tag_results, upload_tasks, upload_results,
                   webhook_calls, result, raised, active_jobs>>

\* the clip the streaming and the local pipeline make up when the
\* segmenter returns nothing
FallbackClip ==
    ClipDefinition(ClipId(SourceId, 0), 0,
                   Min(video_duration, max_clip_duration), << >>, << >>)

\* step 4
StreamCreateClips ==
    /\ variant = "streaming"
    /\ pc = "create_clips"
    /\ stages' = Append(stages, "create_clips")
    /\ LET made == CreateClipDefinitions(scenes, transcript_result,
                       min_clip_duration, max_clip_duration, SourceId)
       IN clip_definitions' = IF Len(made) = 0 THEN <<FallbackClip>> ELSE made
    /\ Continue("split")
    /\ UNCHANGED <<inputs, stepwise, detector, scenes, transcript_result, split_tasks,
                   clip_results, tag_results, upload_tasks, upload_results>>

\* step 6, _upload_clips_parallel up to the gather
StreamUploadStart ==
    /\ variant = "streaming"
    /\ pc = "upload"
    /\ stages' = Append(stages, "upload")
    /\ upload_tasks' = [i \in 1..Len(clip_results) |-> UploadTask(0, "waiting")]
    /\ Continue("uploading")
    /\ UNCHANGED <<inputs, stepwise, detector, scenes, transcript_result, clip_definitions,
                   split_tasks, clip_results, tag_results, upload_results>>

Uploading(tasks) ==
    {i \in 1..Len(tasks) : tasks[i].status \in {"video", "thumbnail"}}

\* upload_with_semaphore: a task gets the semaphore and uploads the video
StreamUploadAcquire(i) ==
    /\ variant = "streaming"
    /\ pc = "uploading"
    /\ upload_tasks[i].status = "waiting"
    /\ Cardinality(Uploading(upload_tasks)) < STREAM_UPLOAD_CONCURRENT
    /\ upload_tasks' = [upload_tasks EXCEPT ![i] = UploadTask(0, "video")]
    /\ UNCHANGED <<inputs, stepwise, detector, pc, scenes, transcript_result, clip_definitions,
                   split_tasks, clip_results, tag_results, upload_results,
                   stages, webhook_calls, result, raised, active_jobs,
                   exceptions>>

\* upload_single_clip: the video upload ends; an exception gives None
StreamUploadVideo(i) ==
    /\ variant = "streaming"
    /\ pc = "uploading"
    /\ upload_tasks[i].status = "video"
    /\ \E ok \in BOOLEAN :
          upload_tasks' = [upload_tasks EXCEPT ![i] =
              UploadTask(0, IF ok THEN "thumbnail" ELSE "failed")]
    /\ UNCHANGED <<inputs, stepwise, detector, pc, scenes, transcript_result, clip_definitions,
                   split_tasks, clip_results, tag_results, upload_results,
                   stages, webhook_calls, result, raised, active_jobs,
                   exceptions>>

\* upload_single_clip: the thumbnail upload ends; an exception gives None
StreamUploadThumbnail(i) ==
    /\ variant = "streaming"
    /\ pc = "uploading"
    /\ upload_tasks[i].status = "thumbnail"
    /\ \E ok \in BOOLEAN :
          upload_tasks' = [upload_tasks EXCEPT ![i] =
              UploadTask(0, IF ok THEN "ok" ELSE "failed")]
    /\ UNCHANGED <<inputs, stepwise, detector, pc, scenes, transcript_result, clip_definitions,
                   split_tasks, clip_results, tag_results, upload_results,
                   stages, webhook_calls, result, raised, active_jobs,
                   exceptions>>

\* the metadata of the clips whose task did not return None, in task order
RECURSIVE SuccessfulUploads(_, _, _)
SuccessfulUploads(clips, tasks, i) ==
    IF i > Len(clips) THEN << >>
    ELSE (IF tasks[i].status = "ok"
          THEN <<[clip_id |-> clips[i].clip_id,
                  video_key |-> VideoKey(clips[i]),
                  thumbnail_key |-> ThumbKey(clips[i])]>>
          ELSE << >>)
         \o SuccessfulUploads(clips, tasks, i + 1)

StreamResult(status, clips, error) ==
    [status |-> status, clips |-> clips, error |-> error]

\* the gather returns; the result is built with status completed and, when
\* a webhook URL was given, _call_webhook is entered (step 7)
StreamUploadGather ==
    /\ variant = "streaming"
    /\ pc = "uploading"
    /\ \A i \in 1..Len(upload_tasks) :
          upload_tasks[i].status \in {"ok", "failed"}
    /\ upload_results' = SuccessfulUploads(clip_results, upload_tasks, 1)
    /\ IF webhook_url
       THEN /\ webhook_calls' = Append(webhook_calls,
                    WebhookCall("completed", "", ClipIds(upload_results')))
            /\ pc' = "webhook"
            /\ UNCHANGED result
       ELSE /\ result' = StreamResult("completed", ClipIds(upload_results'), "")
            /\ pc' = "done"
            /\ UNCHANGED webhook_calls
    /\ UNCHANGED <<inputs, stepwise, detector, scenes, transcript_result, clip_definitions,
                   split_tasks, clip_results, tag_results, upload_tasks,
                   stages, raised, active_jobs, exceptions>>

\* _call_webhook: one POST, never raises; then the result is returned
StreamCallWebhook ==
    /\ variant = "streaming"
    /\ pc = "webhook"
    /\ \E outcome \in {"ok", "http_error", "exception"} :
          LET call == Last(webhook_calls)
          IN /\ webhook_calls' =
                    [webhook_calls EXCEPT ![Len(webhook_calls)] =
                        [call EXCEPT !.posts = 1,
                                     !.delivered = (outcome = "ok")]]
             /\ result' = StreamResult(call.status, call.clips,
                                       call.error_message)
    /\ pc' = "done"
    /\ UNCHANGED <<inputs, stepwise, detector, scenes, transcript_result, clip_definitions,
                   split_tasks, clip_results, tag_results, upload_tasks,
                   upload_results, stages, raised, active_jobs, exceptions>>

\* ------------------------------------------------------------------------
\* LocalVideoPipeline.process_video_bytes
\* ------------------------------------------------------------------------
LocalSaveVideo ==
    /\ variant = "local"
    /\ \E ok \in BOOLEAN : RunStage("save", "detect_scenes", ok)
    /\ UNCHANGED <<inputs, stepwise, detector, scenes, transcript_result, clip_definitions,
                   split_tasks, clip_results, tag_results, upload_tasks,
                   upload_results>>

\* the container has no transcript: transcript_segments=[]
LocalCreateClips ==
    /\ variant = "local"
    /\ pc = "create_clips"
    /\ stages' = Append(stages, "create_clips")
    /\ LET made == CreateClipDefinitions(scenes, << >>,
                       min_clip_duration, max_clip_duration, SourceId)
       IN clip_definitions' = IF Len(made) = 0 THEN <<FallbackClip>> ELSE made
    /\ Continue("split")
    /\ UNCHANGED <<inputs, stepwise, detector, scenes, transcript_result, split_tasks,
                   clip_results, tag_results, upload_tasks, upload_results>>

\* the clip files are read and the result is returned
LocalReadClips ==
    /\ variant = "local"
    /\ pc = "read"
    /\ stages' = Append(stages, "read")
    /\ \E ok \in BOOLEAN :
          IF ok
          THEN /\ result' = LocalResult(ClipIds(clip_results), "")
               /\ pc' = "done"
               /\ UNCHANGED <<webhook_calls, raised, active_jobs, exceptions>>
          ELSE Fail("read")
    /\ UNCHANGED <<inputs, stepwise, detector, scenes, transcript_result, clip_definitions,
                   split_tasks, clip_results, tag_results, upload_tasks,
                   upload_results>>

\* ------------------------------------------------------------------------
\* The jobs
\* ------------------------------------------------------------------------
Next ==
    \/ RunPipelineStart
    \/ DownloadVideo
    \/ TranscribeVideo
    \/ DetectScenes
    \/ VideoCreateClips
    \/ SplitVideoStart
    \/ \E i \in 1..Len(split_tasks) : SplitAcquire(i)
    \/ \E i \in 1..Len(split_tasks) : ExtractClip(i)
    \/ \E i \in 1..Len(split_tasks) : GenerateThumbnail(i)
    \/ SplitVideoGather
    \/ TagClips
    \/ UploadClipsStart
    \/ \E k \in 1..Len(upload_tasks) : UploadFile(k)
    \/ UploadClipsGather
    \/ AnalyzeClips
    \/ RateClips
    \/ GenerateEmbeddings
    \/ FindGroups
    \/ BuildResult
    \/ CallWebhook
    \/ StreamDownload
    \/ StreamTranscribe
    \/ StreamCreateClips
    \/ StreamUploadStart
    \/ \E i \in 1..Len(upload_tasks) : StreamUploadAcquire(i)
    \/ \E i \in 1..Len(upload_tasks) : StreamUploadVideo(i)
    \/ \E i \in 1..Len(upload_tasks) : StreamUploadThumbnail(i)
    \/ StreamUploadGather
    \/ StreamCallWebhook
    \/ LocalSaveVideo
    \/ LocalCreateClips
    \/ LocalReadClips

Spec == Init /\ [][Next]_vars

\* ------------------------------------------------------------------------
\* A local job of many clips, followed from the call of split_video on:
\* the video has n scenes of min_clip_duration each, one clip per scene
\* ------------------------------------------------------------------------
SplitInit ==
    /\ variant = "local"
    /\ CallIdle
    /\ pc = "split"
    /\ \E d \in JobDurations :
          min_clip_duration = d[1] /\ max_clip_duration = d[2]
    /\ \E n \in 1..MaxClips :
          /\ video_duration = n * min_clip_duration
          /\ scenes = [i \in 1..n |->
                          SceneBoundary((i - 1) * min_clip_duration,
                                        i * min_clip_duration)]
    /\ clip_definitions = CreateClipDefinitions(scenes, << >>,
                              min_clip_duration, max_clip_duration, SourceId)
    /\ enable_quality_analysis = FALSE
    /\ webhook_url = FALSE
    /\ transcript_result = << >>
    /\ split_tasks = << >>
    /\ clip_results = << >>
    /\ tag_results = << >>
    /\ upload_tasks = << >>
    /\ upload_results = << >>
    /\ stages = <<"save", "detect_scenes", "create_clips">>
    /\ webhook_calls = << >>
    /\ result = NoResult
    /\ raised = "none"
    /\ active_jobs = << >>
    /\ exceptions = << >>
    /\ DetectorIdle

SplitNext ==
    \/ SplitVideoStart
    \/ \E i \in 1..Len(split_tasks) : SplitAcquire(i)
    \/ \E i \in 1..Len(split_tasks) : ExtractClip(i)
    \/ \E i \in 1..Len(split_tasks) : GenerateThumbnail(i)
    \/ SplitVideoGather
    \/ LocalReadClips

SplitSpec == SplitInit /\ [][SplitNext]_vars

\* ------------------------------------------------------------------------
\* A job of VideoPipeline with n clips, followed from the call of
\* upload_clips on: n scenes of min_clip_duration each, no speech, every
\* clip extracted and tagged, quality analysis off
\* ------------------------------------------------------------------------
UploadInit ==
    /\ variant = "video"
    /\ CallIdle
    /\ pc = "upload"
    /\ \E d \in JobDurations :
          min_clip_duration = d[1] /\ max_clip_duration = d[2]
    /\ \E n \in 1..MaxUploadClips :
          /\ video_duration = n * min_clip_duration
          /\ scenes = [i \in 1..n |->
                          SceneBoundary((i - 1) * min_clip_duration,
                                        i * min_clip_duration)]
    /\ enable_quality_analysis = FALSE
    /\ webhook_url = TRUE
    /\ transcript_result = << >>
    /\ clip_definitions = CreateClipDefinitions(scenes, << >>,
                              min_clip_duration, max_clip_duration, SourceId)
    /\ split_tasks = [i \in 1..Len(clip_definitions) |-> "done"]
    /\ clip_results = SuccessfulResults(clip_definitions, split_tasks, 1)
    /\ tag_results = [i \in 1..Len(clip_results) |->
                         TagResult(clip_results[i], FALSE)]
    /\ upload_tasks = << >>
    /\ upload_results = << >>
    /\ stages = <<"download", "transcribe", "detect_scenes", "create_clips",
                  "split", "tag">>
    /\ webhook_calls = << >>
    /\ result = NoResult
    /\ raised = "none"
    /\ active_jobs = <<"pending", "downloading">>
    /\ exceptions = << >>
    /\ DetectorIdle

UploadNext ==
    \/ UploadClipsStart
    \/ \E k \in 1..Len(upload_tasks) : UploadFile(k)
    \/ UploadClipsGather
    \/ BuildResult
    \/ CallWebhook

UploadSpec == UploadInit /\ [][UploadNext]_vars

\* ------------------------------------------------------------------------
\* DuplicateDetector: classify_pair and build_groups
\* ------------------------------------------------------------------------
SimilarityPair(clip_id_1, clip_id_2, similarity, start_time_1, start_time_2) ==
    [clip_id_1 |-> clip_id_1, clip_id_2 |-> clip_id_2,
     similarity |-> similarity,
     start_time_1 |-> start_time_1, start_time_2 |-> start_time_2]

Abs(x) == IF x < 0 THEN 0 - x ELSE x

\* a classification that forgets the source and the time window
ClassifyPairBySimilarityOnly(pair, same_src) ==
    IF pair.similarity >= DUPLICATE_THRESHOLD THEN "duplicate"
    ELSE IF pair.similarity >= MULTIPLE_TAKES_THRESHOLD THEN "multiple_takes"
    ELSE IF pair.similarity >= SAME_TOPIC_THRESHOLD THEN "same_topic"
    ELSE "none"

\* classify_pair; "none" stands for None
ClassifyPair(pair, same_src) ==
    IF pair.similarity >= DUPLICATE_THRESHOLD THEN "duplicate"
    ELSE IF /\ pair.similarity >= MULTIPLE_TAKES_THRESHOLD
            /\ same_src
            /\ Abs(pair.start_time_1 - pair.start_time_2)
                  <= MULTIPLE_TAKES_TIME_WINDOW
    THEN "multiple_takes"
    ELSE IF pair.similarity >= SAME_TOPIC_THRESHOLD THEN "same_topic"
    ELSE "none"

\* build_groups calls classify_pair with same_source left at its default
PairType(pair) == ClassifyPair(pair, TRUE)

\* the keys of type_pairs in insertion order: the types of the pairs, each
\* at its first occurrence
RECURSIVE TypesInOrder(_, _)
TypesInOrder(all_pairs, seen) ==
    IF Len(all_pairs) = 0 THEN << >>
    ELSE LET t == PairType(Head(all_pairs))
         IN IF t = "none" \/ t \in seen
            THEN TypesInOrder(Tail(all_pairs), seen)
            ELSE <<t>> \o TypesInOrder(Tail(all_pairs), seen \cup {t})

\* type_pairs[group_type]
RECURSIVE TypedPairs(_, _)
TypedPairs(all_pairs, group_type) ==
    IF Len(all_pairs) = 0 THEN << >>
    ELSE (IF PairType(Head(all_pairs)) = group_type
          THEN <<Head(all_pairs)>> ELSE << >>)
         \o TypedPairs(Tail(all_pairs), group_type)

\* the keys of adjacency in insertion order
RECURSIVE AdjacencyKeys(_, _)
AdjacencyKeys(typed_pairs, seen) ==
    IF Len(typed_pairs) = 0 THEN << >>
    ELSE LET a == Head(typed_pairs).clip_id_1
             b == Head(typed_pairs).clip_id_2
             new == (IF a \in seen THEN << >> ELSE <<a>>)
                    \o (IF b \in seen \/ b = a THEN << >> ELSE <<b>>)
         IN new \o AdjacencyKeys(Tail(typed_pairs), seen \cup {a, b})

\* adjacency[node]
Adjacent(typed_pairs, node) ==
    {typed_pairs[i].clip_id_2 :
        i \in {j \in 1..Len(typed_pairs) : typed_pairs[j].clip_id_1 = node}}
    \cup
    {typed_pairs[i].clip_id_1 :
        i \in {j \in 1..Len(typed_pairs) : typed_pairs[j].clip_id_2 = node}}

\* the order in which a set of clip ids is iterated: the ids of set_order
\* that are in the set, as they come
RECURSIVE Iterate(_, _)
Iterate(set_order, set) ==
    IF Len(set_order) = 0 THEN << >>
    ELSE (IF Head(set_order) \in set THEN <<Head(set_order)>> ELSE << >>)
         \o Iterate(Tail(set_order), set)

\* a search that takes in the direct neighbours of a node only
DfsDirectOnly(node, st, typed_pairs, set_order) ==
    [visited |-> st.visited \cup {node} \cup Adjacent(typed_pairs, node),
     component |-> Append(st.component, node) \o
                   Iterate(set_order,
                           Adjacent(typed_pairs, node) \ st.visited)]

\* dfs(node, component); st = [visited, component]
RECURSIVE Dfs(_, _, _, _)
RECURSIVE DfsNeighbors(_, _, _, _, _)
Dfs(node, st, typed_pairs, set_order) ==
    DfsNeighbors(Iterate(set_order, Adjacent(typed_pairs, node)), 1,
                 [visited |-> st.visited \cup {node},
                  component |-> Append(st.component, node)],
                 typed_pairs, set_order)

\* the for loop of dfs over adjacency[node]
DfsNeighbors(neighbors, k, st, typed_pairs, set_order) ==
    IF k > Len(neighbors) THEN st
    ELSE DfsNeighbors(neighbors, k + 1,
                      IF neighbors[k] \in st.visited THEN st
                      ELSE Dfs(neighbors[k], st, typed_pairs, set_order),
                      typed_pairs, set_order)

\* a loop over the keys that forgets what earlier components visited
RECURSIVE ComponentsForgettingVisited(_, _, _, _, _, _)
ComponentsForgettingVisited(keys, i, visited, components, typed_pairs, set_order) ==
    IF i > Len(keys) THEN components
    ELSE LET st == Dfs(keys[i], [visited |-> {}, component |-> << >>],
                       typed_pairs, set_order)
         IN ComponentsForgettingVisited(keys, i + 1, {},
                IF Len(st.component) > 1
                THEN Append(components, st.component) ELSE components,
                typed_pairs, set_order)

\* the loop over the keys of adjacency that collects the components
RECURSIVE Components(_, _, _, _, _, _)
Components(keys, i, visited, components, typed_pairs, set_order) ==
    IF i > Len(keys) THEN components
    ELSE IF keys[i] \in visited
    THEN Components(keys, i + 1, visited, components, typed_pairs, set_order)
    ELSE LET st == Dfs(keys[i], [visited |-> visited, component |-> << >>],
                       typed_pairs, set_order)
         IN Components(keys, i + 1, st.visited,
                       IF Len(st.component) > 1
                       THEN Append(components, st.component) ELSE components,
                       typed_pairs, set_order)

\* similarities.get(key, 0.0): the similarity of the last pair of the two
\* clips, 0 when there is none
RECURSIVE SimilarityOf(_, _, _, _)
SimilarityOf(typed_pairs, a, b, found) ==
    IF Len(typed_pairs) = 0 THEN found
    ELSE SimilarityOf(Tail(typed_pairs), a, b,
             IF {Head(typed_pairs).clip_id_1, Head(typed_pairs).clip_id_2}
                   = {a, b}
             THEN Head(typed_pairs).similarity ELSE found)

\* a group whose representative is the clip visited last
ClipGroupOfLastVisited(group_type, component, typed_pairs) ==
    [group_type |-> group_type,
     clip_ids |-> component,
     representative_clip_id |-> component[Len(component)],
     similarity_scores |->
        [id \in {component[k] : k \in 1..(Len(component) - 1)} |->
            SimilarityOf(typed_pairs, component[Len(component)], id, 0)]]

ClipGroup(group_type, component, typed_pairs) ==
    [group_type |-> group_type,
     clip_ids |-> component,
     representative_clip_id |-> component[1],
     similarity_scores |->
        [id \in {component[k] : k \in 2..Len(component)} |->
            SimilarityOf(typed_pairs, component[1], id, 0)]]

\* the groups of one group type
TypeGroups(all_pairs, group_type, set_order) ==
    LET typed_pairs == TypedPairs(all_pairs, group_type)
        components == Components(AdjacencyKeys(typed_pairs, {}), 1, {}, << >>,
                                 typed_pairs, set_order)
    IN [c \in 1..Len(components) |->
           ClipGroup(group_type, components[c], typed_pairs)]

RECURSIVE GroupsOfTypes(_, _, _)
GroupsOfTypes(types, all_pairs, set_order) ==
    IF Len(types) = 0 THEN << >>
    ELSE TypeGroups(all_pairs, Head(types), set_order)
         \o GroupsOfTypes(Tail(types), all_pairs, set_order)

\* build_groups
BuildGroups(all_pairs, set_order) ==
    GroupsOfTypes(TypesInOrder(all_pairs, {}), all_pairs, set_order)

\* ------------------------------------------------------------------------
\* build_groups on its own: the pairs are drawn, then one call
\* ------------------------------------------------------------------------
\* the clips are numbered; clip i starts at (i - 1) * 100 seconds
ClipStart(i) == (i - 1) * 100

\* similarities of the pairs, in hundredths: 0.90 and 0.97
GroupSimilarities == {90, 97}

ClipPairs == {ab \in (1..MaxGroupClips) \X (1..MaxGroupClips) : ab[1] < ab[2]}

\* lists of at most n pairs, no two of the same two clips
RECURSIVE PairLists(_, _)
PairLists(n, used) ==
    {<< >>} \cup
    (IF n = 0 THEN {}
     ELSE UNION { UNION { { <<SimilarityPair(ab[1], ab[2], sim,
                                ClipStart(ab[1]), ClipStart(ab[2]))>> \o rest :
                                rest \in PairLists(n - 1, used \cup {ab}) } :
                          sim \in GroupSimilarities } :
                  ab \in ClipPairs \ used })

\* the orders in which a set of clip ids may be iterated: going up or down
SetOrders ==
    { [i \in 1..MaxGroupClips |-> i],
      [i \in 1..MaxGroupClips |-> MaxGroupClips + 1 - i] }

GroupInit ==
    /\ variant = "detector"
    /\ CallIdle
    /\ pc = "pairs"
    /\ pairs \in PairLists(MaxPairs, {})
    /\ same_source = TRUE
    /\ tag_tasks = << >>
    /\ embedding_requests = << >>
    /\ embeddings = << >>
    /\ pair_types = << >>
    /\ groups = << >>
    /\ video_duration = 0
    /\ min_clip_duration = 0
    /\ max_clip_duration = 0
    /\ enable_quality_analysis = TRUE
    /\ webhook_url = FALSE
    /\ scenes = << >>
    /\ transcript_result = << >>
    /\ clip_definitions = << >>
    /\ split_tasks = << >>
    /\ clip_results = << >>
    /\ tag_results = << >>
    /\ upload_tasks = << >>
    /\ upload_results = << >>
    /\ stages = << >>
    /\ webhook_calls = << >>
    /\ result = NoResult
    /\ raised = "none"
    /\ active_jobs = << >>
    /\ exceptions = << >>

\* what the detector leaves alone
pipeline == <<inputs, stepwise, scenes, transcript_result, clip_definitions,
              split_tasks, clip_results, tag_results, upload_tasks,
              upload_results, stages, webhook_calls, result, raised,
              active_jobs, exceptions>>

BuildGroupsCall ==
    /\ pc = "pairs"
    /\ \E set_order \in SetOrders : groups' = BuildGroups(pairs, set_order)
    /\ pc' = "grouped"
    /\ UNCHANGED <<pipeline, tag_tasks, embedding_requests, embeddings, pairs,
                   same_source, pair_types>>

GroupNext == BuildGroupsCall

GroupSpec == GroupInit /\ [][GroupNext]_vars

\* the pipeline's variables while only the detector or the tagger runs
PipelineIdle ==
    /\ video_duration = 0
    /\ min_clip_duration = 0
    /\ max_clip_duration = 0
    /\ enable_quality_analysis = TRUE
    /\ webhook_url = FALSE
    /\ scenes = << >>
    /\ transcript_result = << >>
    /\ clip_definitions = << >>
    /\ split_tasks = << >>
    /\ tag_results = << >>
    /\ upload_tasks = << >>
    /\ upload_results = << >>
    /\ stages = << >>
    /\ webhook_calls = << >>
    /\ result = NoResult
    /\ raised = "none"
    /\ active_jobs = << >>
    /\ exceptions = << >>

\* ------------------------------------------------------------------------
\* classify_pair on its own: one pair is drawn, then one call
\* ------------------------------------------------------------------------
\* similarities on both sides of every threshold, in hundredths
ClassifySimilarities == {74, 75, 80, 84, 85, 94, 95, 100}

\* start times whose differences fall on both sides of the time window
ClassifyStarts == {0, 5, 120, 121}

ClassifyInit ==
    /\ variant = "detector"
    /\ CallIdle
    /\ pc = "pair"
    /\ \E similarity \in ClassifySimilarities :
       \E start_time_1 \in ClassifyStarts, start_time_2 \in ClassifyStarts :
          pairs = <<SimilarityPair(1, 2, similarity,
                                   start_time_1, start_time_2)>>
    /\ same_source \in BOOLEAN
    /\ tag_tasks = << >>
    /\ embedding_requests = << >>
    /\ embeddings = << >>
    /\ pair_types = << >>
    /\ groups = << >>
    /\ clip_results = << >>
    /\ PipelineIdle

ClassifyPairCall ==
    /\ pc = "pair"
    /\ pair_types' = <<ClassifyPair(pairs[1], same_source)>>
    /\ pc' = "classified"
    /\ UNCHANGED <<pipeline, tag_tasks, embedding_requests, embeddings, pairs,
                   same_source, groups>>

ClassifyNext == ClassifyPairCall

ClassifySpec == ClassifyInit /\ [][ClassifyNext]_vars

\* ------------------------------------------------------------------------
\* DuplicateDetector.generate_embeddings: the transcripts of all the clips
\* are sent in batches, each batch by _call_embedding_api under @retry
\* ------------------------------------------------------------------------
EMBEDDING_BATCH_SIZE == 100
EMBEDDING_ATTEMPTS == 3

\* clip i of the list handed to the detector or the tagger
StageClip(i, transcript) ==
    ClipResult(ClipDefinition(ClipId(SourceId, i), i - 1, i, transcript, <<i>>))

\* a transcript of more than 10 characters
LongTranscript == <<"h", "e", "l", "l", "o", " ", "t", "h", "e", "r", "e">>

\* the transcripts a clip may carry: none, one of the short texts, a long one
ClipTranscripts == {<< >>, LongTranscript} \cup Texts

\* the lists of exactly n clips
RECURSIVE ClipListsOf(_)
ClipListsOf(n) ==
    IF n = 0 THEN {<< >>}
    ELSE {Append(clips, StageClip(n, transcript)) :
             clips \in ClipListsOf(n - 1), transcript \in ClipTranscripts}

\* the lists of at most n clips
ClipLists(n) == UNION {ClipListsOf(k) : k \in 0..n}

\* transcripts = [clip.transcript for clip in clips]
Transcripts(clips) == [i \in 1..Len(clips) |-> clips[i].transcript]

\* the k-th slice transcripts[i:i + EMBEDDING_BATCH_SIZE]
Batch(transcripts, k) ==
    SubSeq(transcripts, (k - 1) * EMBEDDING_BATCH_SIZE + 1,
           Min(k * EMBEDDING_BATCH_SIZE, Len(transcripts)))

\* how many slices range(0, len(transcripts), EMBEDDING_BATCH_SIZE) gives
BatchCount(transcripts) ==
    (Len(transcripts) + EMBEDDING_BATCH_SIZE - 1) \div EMBEDDING_BATCH_SIZE

EmbeddingRequest(texts, outcome) == [texts |-> texts, outcome |-> outcome]

\* the batches answered so far
AnsweredBatches(requests) ==
    Cardinality({r \in 1..Len(requests) : requests[r].outcome = "ok"})

\* the attempts of the current batch that raised
RECURSIVE FailedAttempts(_)
FailedAttempts(requests) ==
    IF requests = << >> \/ requests[Len(requests)].outcome = "ok" THEN 0
    ELSE 1 + FailedAttempts(SubSeq(requests, 1, Len(requests) - 1))

\* the vector the service returns for a text
Embedding(text) == <<"embedding", text>>

ClipEmbedding(clip_id, embedding) ==
    [clip_id |-> clip_id, embedding |-> embedding]

\* all_embeddings: the answers of the batches, one after the other
RECURSIVE AllEmbeddings(_)
AllEmbeddings(requests) ==
    IF requests = << >> THEN << >>
    ELSE LET last == requests[Len(requests)]
             before == AllEmbeddings(SubSeq(requests, 1, Len(requests) - 1))
         IN IF last.outcome = "ok"
            THEN before \o [i \in 1..Len(last.texts) |->
                               Embedding(last.texts[i])]
            ELSE before

EmbedInit ==
    /\ variant = "detector"
    /\ CallIdle
    /\ pc = "embed"
    /\ clip_results \in ClipLists(MaxEmbedClips)
    /\ DetectorIdle
    /\ PipelineIdle

\* if not clips: return []
GenerateEmbeddingsOfNoClips ==
    /\ pc = "embed"
    /\ clip_results = << >>
    /\ embeddings' = << >>
    /\ pc' = "embedded"
    /\ UNCHANGED <<pipeline, tag_tasks, embedding_requests, pairs,
                   same_source, pair_types, groups>>

\* one attempt of _call_embedding_api on the current batch; the third
\* failure of a batch leaves generate_embeddings through tenacity
CallEmbeddingApi ==
    /\ pc = "embed"
    /\ clip_results # << >>
    /\ AnsweredBatches(embedding_requests)
          < BatchCount(Transcripts(clip_results))
    /\ \E outcome \in {"ok", "error"} :
          /\ embedding_requests' =
                Append(embedding_requests,
                       EmbeddingRequest(
                          Batch(Transcripts(clip_results),
                                AnsweredBatches(embedding_requests) + 1),
                          outcome))
          /\ IF /\ outcome = "error"
                /\ FailedAttempts(embedding_requests) + 1
                      >= EMBEDDING_ATTEMPTS
             THEN raised' = "RetryError" /\ pc' = "raised"
             ELSE UNCHANGED <<raised, pc>>
    /\ UNCHANGED <<inputs, stepwise, scenes, transcript_result, clip_definitions,
                   split_tasks, clip_results, tag_results, upload_tasks,
                   upload_results, stages, webhook_calls, result,
                   active_jobs, exceptions, tag_tasks, embeddings, pairs,
                   same_source, pair_types, groups>>

\* every batch is answered: one ClipEmbedding per clip
CreateClipEmbeddings ==
    /\ pc = "embed"
    /\ clip_results # << >>
    /\ AnsweredBatches(embedding_requests)
          = BatchCount(Transcripts(clip_results))
    /\ embeddings' =
          [i \in 1..Len(clip_results) |->
              ClipEmbedding(clip_results[i].clip_id,
                            AllEmbeddings(embedding_requests)[i])]
    /\ pc' = "embedded"
    /\ UNCHANGED <<pipeline, tag_tasks, embedding_requests, pairs,
                   same_source, pair_types, groups>>

EmbedNext ==
    \/ GenerateEmbeddingsOfNoClips
    \/ CallEmbeddingApi
    \/ CreateClipEmbeddings

EmbedSpec == EmbedInit /\ [][EmbedNext]_vars

\* ------------------------------------------------------------------------
\* ClipTagger.tag_clips: one task per clip behind a semaphore, each task
\* tag_clip under @retry, gathered with return_exceptions=True
\* ------------------------------------------------------------------------
TAG_MAX_CONCURRENT == 5
TAG_ATTEMPTS == 3
MINIMAL_TRANSCRIPT == 10

\* confidences in hundredths
MINIMAL_CONFIDENCE == 90
PARSE_FALLBACK_CONFIDENCE == 30
FAILURE_FALLBACK_CONFIDENCE == 10

\* what one call of the chat API may give: a well-formed answer, text that
\* is not JSON, JSON that is not an object, or an error of the API
TagResponses == {"valid", "invalid_json", "not_an_object", "api_error"}

\* the confidence a well-formed answer carries
ValidConfidence == 80

TagTask(state, responses) == [state |-> state, responses |-> responses]

ClipTagResult(clip_id, primary_tag, primary_confidence) ==
    [clip_id |-> clip_id, primary_tag |-> primary_tag,
     primary_confidence |-> primary_confidence]

\* not context.transcript or len(context.transcript.strip()) < 10
MinimalTranscript(transcript) ==
    transcript = << >> \/ Len(Strip(transcript)) < MINIMAL_TRANSCRIPT

\* how a call ends: it returns a TagResult or it raises
Returned(tag_result) == [raised |-> FALSE, result |-> tag_result]
Raised(clip_id) == [raised |-> TRUE, result |-> ClipTagResult(clip_id, "none", 0)]

\* _parse_response: JSONDecodeError, KeyError and ValueError are caught and
\* give the fallback; json.loads of a list makes data["primary_tag"] raise
\* TypeError, which is not caught
ParseResponse(response, clip_id) ==
    IF response = "valid"
    THEN Returned(ClipTagResult(clip_id, "hook", ValidConfidence))
    ELSE IF response = "invalid_json"
    THEN Returned(ClipTagResult(clip_id, "b_roll", PARSE_FALLBACK_CONFIDENCE))
    ELSE Raised(clip_id)

\* one attempt of tag_clip past the transcript test: the API call and the
\* parsing of its answer
TagClipAttempt(response, clip_id) ==
    IF response = "api_error" THEN Raised(clip_id)
    ELSE ParseResponse(response, clip_id)

\* the tasks inside "async with semaphore"
Tagging(tasks) == {i \in 1..Len(tasks) : tasks[i].state = "running"}

\* what the task of a clip handed to gather: a TagResult, or the exception
\* of its last attempt
TaskResult(task, clip) ==
    IF MinimalTranscript(clip.transcript)
    THEN Returned(ClipTagResult(clip.clip_id, "b_roll", MINIMAL_CONFIDENCE))
    ELSE TagClipAttempt(task.responses[Len(task.responses)], clip.clip_id)

\* the results of the tasks that did not raise
RECURSIVE FinalResultsOfReturned(_, _)
FinalResultsOfReturned(tasks, clips) ==
    IF clips = << >> THEN << >>
    ELSE LET r == TaskResult(tasks[1], clips[1])
         IN (IF r.raised THEN << >> ELSE <<r.result>>)
               \o FinalResultsOfReturned(Tail(tasks), Tail(clips))

\* final_results: the results of the tasks, an exception replaced by the
\* fallback result
FinalResults(tasks, clips) ==
    [i \in 1..Len(clips) |->
        IF TaskResult(tasks[i], clips[i]).raised
        THEN ClipTagResult(clips[i].clip_id, "b_roll",
                           FAILURE_FALLBACK_CONFIDENCE)
        ELSE TaskResult(tasks[i], clips[i]).result]

TagInit ==
    /\ variant = "tagger"
    /\ CallIdle
    /\ pc = "tag_clips"
    /\ clip_results \in ClipLists(MaxTagClips)
    /\ DetectorIdle
    /\ PipelineIdle

\* tag_clips creates one task per clip
TagClipsStart ==
    /\ pc = "tag_clips"
    /\ tag_tasks' = [i \in 1..Len(clip_results) |-> TagTask("waiting", << >>)]
    /\ pc' = "tagging"
    /\ UNCHANGED <<pipeline, embedding_requests, embeddings, pairs,
                   same_source, pair_types, groups>>

\* a task enters the semaphore and tag_clip starts: a minimal transcript
\* returns at once, any other goes on to the API
TagAcquire(i) ==
    /\ pc = "tagging"
    /\ tag_tasks[i].state = "waiting"
    /\ Cardinality(Tagging(tag_tasks)) < TAG_MAX_CONCURRENT
    /\ tag_tasks' =
          [tag_tasks EXCEPT ![i].state =
              IF MinimalTranscript(clip_results[i].transcript)
              THEN "done" ELSE "running"]
    /\ UNCHANGED <<pipeline, pc, embedding_requests, embeddings, pairs,
                   same_source, pair_types, groups>>

\* one attempt of tag_clip: an attempt that raises is repeated until the
\* third
TagClip(i) ==
    /\ pc = "tagging"
    /\ tag_tasks[i].state = "running"
    /\ \E response \in TagResponses :
          LET responses == Append(tag_tasks[i].responses, response)
              raises == TagClipAttempt(response,
                                       clip_results[i].clip_id).raised
          IN tag_tasks' =
                [tag_tasks EXCEPT ![i] =
                    TagTask(IF raises /\ Len(responses) < TAG_ATTEMPTS
                            THEN "running" ELSE "done",
                            responses)]
    /\ UNCHANGED <<pipeline, pc, embedding_requests, embeddings, pairs,
                   same_source, pair_types, groups>>

\* gather returns when every task is done
TagClipsGather ==
    /\ pc = "tagging"
    /\ \A i \in 1..Len(tag_tasks) : tag_tasks[i].state = "done"
    /\ tag_results' = FinalResults(tag_tasks, clip_results)
    /\ pc' = "tagged"
    /\ UNCHANGED <<inputs, stepwise, detector, scenes, transcript_result,
                   clip_definitions, split_tasks, clip_results, upload_tasks,
                   upload_results, stages, webhook_calls, result, raised,
                   active_jobs, exceptions>>

TagNext ==
    \/ TagClipsStart
    \/ \E i \in 1..Len(tag_tasks) : TagAcquire(i)
    \/ \E i \in 1..Len(tag_tasks) : TagClip(i)
    \/ TagClipsGather

TagSpec == TagInit /\ [][TagNext]_vars

\* ------------------------------------------------------------------------
\* VideoPipeline.call_webhook on its own: the retry loop, one POST and one
\* back-off wait at a time
\* ------------------------------------------------------------------------
\* what a POST may give: a status code, or httpx.RequestError
WebhookStatuses == {200, 399, 400, 500}
Response(status_code) == [error |-> FALSE, status_code |-> status_code]
RequestError == [error |-> TRUE, status_code |-> 0]
WebhookOutcomes == {Response(s) : s \in WebhookStatuses} \cup {RequestError}

RECURSIVE Pow2(_)
Pow2(n) == IF n = 0 THEN 1 ELSE 2 * Pow2(n - 1)

PostEvent(attempt, outcome) ==
    [kind |-> "post", attempt |-> attempt, outcome |-> outcome]
SleepEvent(seconds) == [kind |-> "sleep", seconds |-> seconds]

\* response.status_code < 400
Delivered(outcome) == ~outcome.error /\ outcome.status_code < 400

WebhookInit ==
    /\ variant = "webhook"
    /\ pc = "post"
    /\ call_args \in [retries : 0..MaxRetries]
    /\ call_locals = [attempt |-> 0]
    /\ call_events = << >>
    /\ call_returned = "none"
    /\ clip_results = << >>
    /\ DetectorIdle
    /\ PipelineIdle

\* one pass of "for attempt in range(retries)" up to the wait: the POST,
\* return True on a status below 400, otherwise on to the wait or, when
\* attempt has reached waits, to the next pass
WebhookPostWaiting(waits) ==
    /\ pc = "post"
    /\ call_locals.attempt < call_args.retries
    /\ \E outcome \in WebhookOutcomes :
          /\ call_events' =
                Append(call_events, PostEvent(call_locals.attempt, outcome))
          /\ IF Delivered(outcome)
             THEN /\ call_returned' = "True"
                  /\ pc' = "returned"
                  /\ UNCHANGED call_locals
             ELSE IF call_locals.attempt < waits
             THEN /\ pc' = "sleep"
                  /\ UNCHANGED <<call_locals, call_returned>>
             ELSE /\ call_locals' = [attempt |-> call_locals.attempt + 1]
                  /\ UNCHANGED <<pc, call_returned>>
    /\ UNCHANGED <<inputs, detector, call_args, scenes, transcript_result,
                   clip_definitions, split_tasks, clip_results, tag_results,
                   upload_tasks, upload_results, stages, webhook_calls,
                   result, raised, active_jobs, exceptions>>

\* a loop that also waits after its last attempt
WebhookPostAlwaysWaiting ==
    WebhookPostWaiting(call_args.retries)

\* if attempt < retries - 1: await asyncio.sleep(2**attempt)
WebhookPost ==
    WebhookPostWaiting(call_args.retries - 1)

\* await asyncio.sleep(2**attempt), then the next pass
WebhookSleep ==
    /\ pc = "sleep"
    /\ call_events' = Append(call_events, SleepEvent(Pow2(call_locals.attempt)))
    /\ call_locals' = [attempt |-> call_locals.attempt + 1]
    /\ pc' = "post"
    /\ UNCHANGED <<inputs, detector, call_args, call_returned, scenes,
                   transcript_result, clip_definitions, split_tasks,
                   clip_results, tag_results, upload_tasks, upload_results,
                   stages, webhook_calls, result, raised, active_jobs,
                   exceptions>>

\* the loop is over: return False
WebhookGiveUp ==
    /\ pc = "post"
    /\ call_locals.attempt >= call_args.retries
    /\ call_returned' = "False"
    /\ pc' = "returned"
    /\ UNCHANGED <<inputs, detector, call_args, call_locals, call_events,
                   scenes, transcript_result, clip_definitions, split_tasks,
                   clip_results, tag_results, upload_tasks, upload_results,
                   stages, webhook_calls, result, raised, active_jobs,
                   exceptions>>

WebhookNext == WebhookPost \/ WebhookSleep \/ WebhookGiveUp

WebhookSpec == WebhookInit /\ [][WebhookNext]_vars

\* ------------------------------------------------------------------------
\* QualityRater.score_speaking_quality on its own.  Scores and penalties
\* are counted in six-hundredths of a point, which makes every quotient of
\* the code exact for whole words per minute, filler rates in hundredths,
\* whole hesitations per minute and completion rates in tenths
\* ------------------------------------------------------------------------
OPTIMAL_WPM_MIN == 140
OPTIMAL_WPM_MAX == 170
MAX_WPM == 220
MIN_WPM == 80
\* filler rates, in hundredths
EXCELLENT_FILLER_RATE == 1
GOOD_FILLER_RATE == 2
ACCEPTABLE_FILLER_RATE == 5

\* tenths of a point
Points(tenths) == 60 * tenths

WpmValues == 0..MaxWpm
FillerRates == {1, 2, 5, 10}
HesitationRates == {2, 5, 13}
CompletionRates == {4, 5, 9}

SpeakingQualityMetrics ==
    [words_per_minute : WpmValues, filler_word_rate : FillerRates,
     hesitation_rate : HesitationRates,
     sentence_completion_rate : CompletionRates]

\* the branches on wpm
WpmPenalty(wpm) ==
    IF wpm < MIN_WPM
    THEN (Points(20) * (MIN_WPM - wpm)) \div MIN_WPM
    ELSE IF wpm > MAX_WPM
    THEN (Points(10) * (wpm - MAX_WPM)) \div 50
    ELSE IF wpm < OPTIMAL_WPM_MIN
    THEN (Points(5) * (OPTIMAL_WPM_MIN - wpm)) \div 60
    ELSE IF wpm > OPTIMAL_WPM_MAX
    THEN (Points(5) * (wpm - OPTIMAL_WPM_MAX)) \div 50
    ELSE 0

\* score -= min(2.0, wpm_penalty)
WpmDeduction(wpm) == Min(Points(20), WpmPenalty(wpm))

FillerPenalty(filler_rate) ==
    IF filler_rate <= EXCELLENT_FILLER_RATE THEN 0
    ELSE IF filler_rate <= GOOD_FILLER_RATE THEN Points(3)
    ELSE IF filler_rate <= ACCEPTABLE_FILLER_RATE THEN Points(7)
    ELSE Min(Points(20),
             Points(10)
               + (Points(10) * (filler_rate - ACCEPTABLE_FILLER_RATE) * 20)
                    \div 100)

HesitationPenalty(hesitation_rate) ==
    IF hesitation_rate <= 2 THEN 0
    ELSE IF hesitation_rate <= 5 THEN Points(5)
    ELSE Min(Points(15), (Points(10) * (hesitation_rate - 5)) \div 5)

\* in tenths: at least 0.9 earns 0.2, below 0.5 costs 0.5
CompletionBonus(completion_rate) ==
    IF completion_rate >= 9 THEN Points(2)
    ELSE IF completion_rate < 5 THEN 0 - Points(5)
    ELSE 0

\* max(1.0, ...)
Max(a, b) == IF a > b THEN a ELSE b

ScoreSpeakingQualityOf(metrics) ==
    LET score == Points(50)
                   - WpmDeduction(metrics.words_per_minute)
                   - FillerPenalty(metrics.filler_word_rate)
                   - HesitationPenalty(metrics.hesitation_rate)
                   + CompletionBonus(metrics.sentence_completion_rate)
    IN Max(Points(10), Min(Points(50), score))

RateInit ==
    /\ variant = "rate"
    /\ pc = "call"
    /\ call_args \in SpeakingQualityMetrics
    /\ call_locals = << >>
    /\ call_events = << >>
    /\ call_returned = "none"
    /\ clip_results = << >>
    /\ DetectorIdle
    /\ PipelineIdle

\* the call: the deduction for the pace and the score are kept as the
\* locals of the finished call
ScoreSpeakingQuality ==
    /\ pc = "call"
    /\ call_locals' =
          [wpm_deduction |-> WpmDeduction(call_args.words_per_minute),
           score |-> ScoreSpeakingQualityOf(call_args)]
    /\ call_returned' = "score"
    /\ pc' = "returned"
    /\ UNCHANGED <<inputs, detector, call_args, call_events, scenes,
                   transcript_result, clip_definitions, split_tasks,
                   clip_results, tag_results, upload_tasks, upload_results,
                   stages, webhook_calls, result, raised, active_jobs,
                   exceptions>>

RateNext == ScoreSpeakingQuality

RateSpec == RateInit /\ [][RateNext]_vars

\* ------------------------------------------------------------------------
\* R2Client.upload_file_streaming and R2Client._multipart_upload on their
\* own, one request to the object store at a time.  Sizes are in MiB.
\* ------------------------------------------------------------------------
MULTIPART_THRESHOLD == 5
MULTIPART_CHUNK_SIZE == 10

\* the variables no step of a call followed on its own touches
outside_call == <<inputs, detector, scenes, transcript_result, clip_definitions, split_tasks, clip_results, tag_results, upload_tasks, upload_results, stages, webhook_calls, result, raised, active_jobs, exceptions>>

\* the ETag the object store answers an uploaded part with
ETags == {"etag-a", "etag-b"}

Part(part_number, etag) == [PartNumber |-> part_number, ETag |-> etag]

\* a request sent to the object store
StoreRequest(kind, part_number, parts) ==
    [kind |-> kind, part_number |-> part_number, parts |-> parts]

\* the locals of _multipart_upload; in_flight holds the part numbers whose
\* upload_part has been sent and not yet answered, error the exception
\* caught by "except Exception", raised the one that leaves the call
MultipartLocals ==
    [part_number |-> 1, parts |-> << >>, offset |-> 0, in_flight |-> {},
     error |-> "none", raised |-> "none"]

MultipartInit ==
    /\ variant = "multipart"
    /\ pc = "stream"
    /\ call_args \in [file_size : 1..MaxFileSize]
    /\ call_locals = MultipartLocals
    /\ call_events = << >>
    /\ call_returned = "none"
    /\ clip_results = << >>
    /\ DetectorIdle
    /\ PipelineIdle

\* upload_file_streaming: above the threshold the multipart upload, else
\* one upload_file call
UploadFileStreaming ==
    /\ pc = "stream"
    /\ IF call_args.file_size > MULTIPART_THRESHOLD
       THEN /\ pc' = "create"
            /\ UNCHANGED <<call_locals, call_events, call_returned>>
       ELSE \E ok \in BOOLEAN :
               /\ call_events' =
                     Append(call_events, StoreRequest("upload_file", 0, << >>))
               /\ IF ok
                  THEN /\ call_returned' = "key"
                       /\ pc' = "returned"
                       /\ UNCHANGED call_locals
                  ELSE /\ call_returned' = "raised"
                       /\ call_locals' =
                             [call_locals EXCEPT !.raised = "upload_error"]
                       /\ pc' = "raised"
    /\ UNCHANGED <<call_args, outside_call>>

\* create_multipart_upload, outside the try: its failure leaves the call
MultipartCreate ==
    /\ pc = "create"
    /\ call_events' = Append(call_events, StoreRequest("create", 0, << >>))
    /\ \E ok \in BOOLEAN :
          IF ok
          THEN /\ pc' = "read"
               /\ UNCHANGED <<call_locals, call_returned>>
          ELSE /\ call_returned' = "raised"
               /\ call_locals' = [call_locals EXCEPT !.raised = "create_error"]
               /\ pc' = "raised"
    /\ UNCHANGED <<call_args, outside_call>>

\* chunk = f.read(MULTIPART_CHUNK_SIZE): what is left of the file, at most
\* one chunk
Chunk == Min(MULTIPART_CHUNK_SIZE, call_args.file_size - call_locals.offset)

\* the head of the loop: break on an empty chunk, else upload_part is sent
MultipartReadChunk ==
    /\ pc = "read"
    /\ IF Chunk = 0
       THEN /\ pc' = "complete"
            /\ UNCHANGED <<call_locals, call_events>>
       ELSE /\ call_events' =
                  Append(call_events,
                         StoreRequest("upload_part", call_locals.part_number,
                                      << >>))
            /\ call_locals' =
                  [call_locals EXCEPT
                      !.offset = @ + Chunk,
                      !.in_flight = @ \cup {call_locals.part_number}]
            /\ pc' = "part"
    /\ UNCHANGED <<call_args, call_returned, outside_call>>

\* "await client.upload_part(...)" resumes: the part is recorded and the
\* loop goes on, or the exception reaches "except Exception"
MultipartPartDone ==
    /\ pc = "part"
    /\ \/ \E etag \in ETags :
             /\ call_locals' =
                   [call_locals EXCEPT
                       !.in_flight = @ \ {call_locals.part_number},
                       !.parts = Append(@, Part(call_locals.part_number, etag)),
                       !.part_number = @ + 1]
             /\ pc' = "read"
       \/ /\ call_locals' =
                [call_locals EXCEPT
                    !.in_flight = @ \ {call_locals.part_number},
                    !.error = "part_error"]
          /\ pc' = "abort"
    /\ UNCHANGED <<call_args, call_events, call_returned, outside_call>>

\* complete_multipart_upload with the parts collected; return key
MultipartComplete ==
    /\ pc = "complete"
    /\ call_events' =
          Append(call_events, StoreRequest("complete", 0, call_locals.parts))
    /\ \E ok \in BOOLEAN :
          IF ok
          THEN /\ call_returned' = "key"
               /\ pc' = "returned"
               /\ UNCHANGED call_locals
          ELSE /\ call_locals' = [call_locals EXCEPT !.error = "complete_error"]
               /\ pc' = "abort"
               /\ UNCHANGED call_returned
    /\ UNCHANGED <<call_args, outside_call>>

\* a handler that raises again without telling the object store
MultipartRaiseWithoutAbort ==
    /\ pc = "abort"
    /\ call_locals' = [call_locals EXCEPT !.raised = call_locals.error]
    /\ call_returned' = "raised"
    /\ pc' = "raised"
    /\ UNCHANGED <<call_args, call_events, outside_call>>

\* except Exception: abort_multipart_upload, then "raise"; when the abort
\* call itself fails its exception leaves the call and "raise" is not
\* reached
MultipartAbort ==
    /\ pc = "abort"
    /\ call_events' = Append(call_events, StoreRequest("abort", 0, << >>))
    /\ \E ok \in BOOLEAN :
          call_locals' =
             [call_locals EXCEPT
                 !.raised = IF ok THEN call_locals.error ELSE "abort_error"]
    /\ call_returned' = "raised"
    /\ pc' = "raised"
    /\ UNCHANGED <<call_args, outside_call>>

MultipartNext ==
    \/ UploadFileStreaming
    \/ MultipartCreate
    \/ MultipartReadChunk
    \/ MultipartPartDone
    \/ MultipartComplete
    \/ MultipartAbort

MultipartSpec == MultipartInit /\ [][MultipartNext]_vars

\* ------------------------------------------------------------------------
\* _split_long_scene on its own, one pass of a while loop at a time, for a
\* scene longer than max_duration and not shorter than min_duration (the
\* scenes create_clip_definitions hands to it)
\* ------------------------------------------------------------------------
SplitLoopArgs ==
    { [start_time |-> a, end_time |-> b, transcript_segments |-> segs, min_duration |-> lo, max_duration |-> hi] :
         a \in 0..MaxLoopTime, b \in 0..MaxLoopTime,
         segs \in SegmentLists(MaxLoopSegs, 0, MaxLoopTime),
         lo \in 1..MaxLoopMinDuration, hi \in 1..MaxLoopMaxDuration }

\* relevant_segments of the call followed
RelevantSegments ==
    OverlappingSegments(call_args.transcript_segments,
                        call_args.start_time, call_args.end_time)

SplitLoopInit ==
    /\ variant = "split_loop"
    /\ pc = "enter"
    /\ call_args \in SplitLoopArgs
    /\ call_args.end_time - call_args.start_time > call_args.max_duration
    /\ call_args.end_time - call_args.start_time >= call_args.min_duration
    /\ call_locals = [current_start |-> call_args.start_time, clip_index |-> 0,
                      segment_idx |-> 0, clips |-> << >>]
    /\ call_events = << >>
    /\ call_returned = "none"
    /\ clip_results = << >>
    /\ DetectorIdle
    /\ PipelineIdle

\* "if not relevant_segments": which of the two loops runs
SplitLongSceneEnter ==
    /\ pc = "enter"
    /\ pc' = IF Len(RelevantSegments) = 0 THEN "even" ELSE "segments"
    /\ UNCHANGED <<stepwise, outside_call>>

\* the clip of one pass, appended when it is long enough
WithClip(clip_end, transcript) ==
    IF clip_end - call_locals.current_start >= call_args.min_duration
    THEN [call_locals EXCEPT
             !.clips = Append(@, ClipDefinition(
                                    ClipId(SourceId, call_locals.clip_index),
                                    call_locals.current_start, clip_end,
                                    transcript, << >>)),
             !.clip_index = @ + 1]
    ELSE call_locals

\* one pass of "while current_start < end_time" of the no-transcript loop
SplitEvenlyPass ==
    /\ pc = "even"
    /\ call_locals.current_start < call_args.end_time
    /\ LET clip_end == Min(call_locals.current_start + call_args.max_duration,
                           call_args.end_time)
       IN call_locals' =
             [WithClip(clip_end, << >>) EXCEPT !.current_start = clip_end]
    /\ UNCHANGED <<pc, call_args, call_events, call_returned, outside_call>>

\* one pass of the loop over the transcript segments, the search for the
\* break point starting from best_break = current_start + least
SplitAtSegmentsPassFrom(least) ==
    /\ pc = "segments"
    /\ call_locals.current_start < call_args.end_time
    /\ call_locals.segment_idx < Len(RelevantSegments)
    /\ LET st == FindBreak(RelevantSegments, call_locals.segment_idx + 1,
                           call_locals.current_start,
                           call_args.min_duration, call_args.max_duration,
                           [best_break |-> call_locals.current_start + least,
                            segment_idx |-> call_locals.segment_idx,
                            accumulated_text |-> << >>])
           clip_end == Min(st.best_break, call_args.end_time)
       IN call_locals' =
             [WithClip(clip_end, Strip(Join(st.accumulated_text))) EXCEPT
                 !.current_start = clip_end,
                 !.segment_idx = st.segment_idx]
    /\ UNCHANGED <<pc, call_args, call_events, call_returned, outside_call>>

\* a search that starts from best_break = current_start
SplitAtSegmentsPassFromStart ==
    SplitAtSegmentsPassFrom(0)

\* best_break = current_start + min_duration
SplitAtSegmentsPass ==
    SplitAtSegmentsPassFrom(call_args.min_duration)

\* the loop condition fails: return clips
SplitLongSceneReturn ==
    /\ \/ /\ pc = "even"
          /\ ~(call_locals.current_start < call_args.end_time)
       \/ /\ pc = "segments"
          /\ ~(/\ call_locals.current_start < call_args.end_time
               /\ call_locals.segment_idx < Len(RelevantSegments))
    /\ pc' = "returned"
    /\ call_returned' = "clips"
    /\ UNCHANGED <<call_args, call_locals, call_events, outside_call>>

SplitLoopNext ==
    \/ SplitLongSceneEnter
    \/ SplitEvenlyPass
    \/ SplitAtSegmentsPass
    \/ SplitLongSceneReturn

SplitLoopSpec == SplitLoopInit /\ [][SplitLoopNext]_vars

\* the call is a sequence of steps of one coroutine without suspension
\* points: a step that can be taken is taken
SplitLoopLiveSpec == SplitLoopSpec /\ WF_vars(SplitLoopNext)

\* ------------------------------------------------------------------------
\* Properties
\* ------------------------------------------------------------------------
Range(seq) == {seq[i] : i \in 1..Len(seq)}

NoClipsMessage == "No valid clips could be created from video"

\* the stage an exception message comes from
RaisedIn(message) ==
    IF message = NoClipsMessage THEN "create_clips" ELSE message

\* C1: in VideoPipeline.process_video, once one of the 2N upload_file tasks
\* has failed for good (its retries are used up), the job can only end
\* failed: upload_clips raises, the one callback is "failed", PipelineError
\* reaches run_pipeline, the registry records failed, and no completed
\* result or callback is ever produced
C1_UploadFailureFailsJob ==
    (variant = "video"
     /\ \E k \in 1..Len(upload_tasks) : upload_tasks[k].status = "failed") =>
        /\ pc \in {"uploading", "webhook", "done"}
        /\ result.status # "completed"
        /\ "completed" \notin Range(active_jobs)
        /\ \A c \in 1..Len(webhook_calls) :
              webhook_calls[c].status # "completed"
        /\ pc \in {"webhook", "done"} =>
              /\ exceptions = <<"upload">>
              /\ Len(webhook_calls) = 1
              /\ webhook_calls[1].status = "failed"
        /\ pc = "done" =>
              /\ raised = "PipelineError"
              /\ Last(active_jobs) = "failed"

\* a finished job of two clips in which one object failed and another went up
C1_Witness ==
    /\ variant = "video"
    /\ pc = "done"
    /\ Len(upload_tasks) = 4
    /\ Cardinality({k \in 1..4 : upload_tasks[k].status = "failed"}) = 1
    /\ raised = "PipelineError"

\* C2: in StreamingVideoPipeline.process_and_upload, when the upload of a
\* clip's video or thumbnail has failed, neither the result nor the callback
\* carries status completed
C2_StreamingUploadFailureFailsJob ==
    (variant = "streaming"
     /\ \E i \in 1..Len(upload_tasks) : upload_tasks[i].status = "failed") =>
        /\ result.status # "completed"
        /\ \A c \in 1..Len(webhook_calls) :
              webhook_calls[c].status # "completed"
        /\ pc = "done" => result.status = "failed"

\* C3: in VideoPipeline.process_video, when a stage raises, no later stage
\* is started, the callback is sent with status "failed" and the error
\* message, and PipelineError is raised so that run_pipeline records failed
C3_StageExceptionFailsJob ==
    (variant = "video" /\ exceptions # << >>) =>
        /\ Len(exceptions) = 1
        /\ Last(stages) = RaisedIn(exceptions[1])
        /\ pc \in {"webhook", "done"}
        /\ Len(webhook_calls) = 1
        /\ webhook_calls[1].status = "failed"
        /\ webhook_calls[1].error_message = exceptions[1]
        /\ result = NoResult
        /\ pc = "done" =>
              /\ raised = "PipelineError"
              /\ active_jobs = <<"pending", "downloading", "failed">>

\* a finished job whose quality rating step raised after its clips went up
C3_Witness ==
    /\ variant = "video"
    /\ pc = "done"
    /\ exceptions = <<"rate">>
    /\ Len(upload_results) = 2
    /\ webhook_calls[1].delivered

\* C4: in StreamingVideoPipeline.process_and_upload, an exception in any
\* stage, transcription included, ends the job failed and no later stage
\* runs
C4_StreamingStageExceptionFailsJob ==
    (variant = "streaming" /\ exceptions # << >>) =>
        /\ Last(stages) = RaisedIn(exceptions[1])
        /\ result.status # "completed"
        /\ pc = "done" => result.status = "failed"

\* C5: every run of VideoPipeline.process_video enters call_webhook exactly
\* once: with "completed" if and only if no stage raised, otherwise with
\* "failed"; never twice, and a finished run never without
C5_ExactlyOneCallback ==
    variant = "video" =>
        /\ Len(webhook_calls) <= 1
        /\ pc = "done" => Len(webhook_calls) = 1
        /\ \A c \in 1..Len(webhook_calls) :
              /\ webhook_calls[c].status \in {"completed", "failed"}
              /\ webhook_calls[c].status = "completed" <=>
                    (exceptions = << >> /\ Last(stages) = "build")
              /\ webhook_calls[c].status = "failed" <=> exceptions # << >>

\* a finished job of two clips, all stages passed, callback delivered
C5_Witness ==
    /\ variant = "video"
    /\ pc = "done"
    /\ enable_quality_analysis
    /\ exceptions = << >>
    /\ Len(webhook_calls[1].clips) = 2
    /\ webhook_calls[1].status = "completed"
    /\ webhook_calls[1].delivered

\* C6: when every delivery attempt of the completion callback has failed,
\* process_video still returns its completed result and run_pipeline
\* records completed; no failure callback follows and nothing is raised
C6_UndeliveredCallbackKeepsCompleted ==
    (/\ variant = "video"
     /\ webhook_calls # << >>
     /\ webhook_calls[1].status = "completed"
     /\ webhook_calls[1].posts = WEBHOOK_RETRIES
     /\ ~webhook_calls[1].delivered) =>
        /\ pc = "done"
        /\ result = CompletedResult
        /\ Last(active_jobs) = "completed"
        /\ raised = "none"
        /\ Len(webhook_calls) = 1
        /\ exceptions = << >>

\* a completed job of two clips whose callback never got through
C6_Witness ==
    /\ variant = "video"
    /\ pc = "done"
    /\ Len(webhook_calls) = 1
    /\ webhook_calls[1].status = "completed"
    /\ webhook_calls[1].posts = WEBHOOK_RETRIES
    /\ ~webhook_calls[1].delivered
    /\ Len(result.clips) = 2

\* the statuses a job is said to go through before completed
StatusOrder ==
    <<"pending", "downloading", "transcribing", "detecting_scenes",
      "splitting", "tagging", "uploading">>

\* the elements of sub occur in seq in the order of sub
RECURSIVE OccursInOrder(_, _)
OccursInOrder(sub, seq) ==
    IF Len(sub) = 0 THEN TRUE
    ELSE IF Len(seq) = 0 THEN FALSE
    ELSE IF Head(sub) = Head(seq) THEN OccursInOrder(Tail(sub), Tail(seq))
    ELSE OccursInOrder(sub, Tail(seq))

\* C7: the status the registry records for a job goes through pending,
\* downloading, transcribing, detecting_scenes, splitting, tagging and
\* uploading, in that order, before it becomes completed
C7_RegistryPassesThroughEveryStatus ==
    (variant = "video" /\ "completed" \in Range(active_jobs)) =>
        /\ Last(active_jobs) = "completed"
        /\ OccursInOrder(StatusOrder, active_jobs)

\* C8: in each pipeline variant, when create_clip_definitions returned no
\* clips the job goes on with the one clip [0, min(video_duration,
\* max_duration)] and is not failed for that reason
C8_NoClipsFallsBackToOneClip ==
    (/\ "create_clips" \in Range(stages)
     /\ Len(CreateClipDefinitions(scenes, transcript_result,
                min_clip_duration, max_clip_duration, SourceId)) = 0) =>
        /\ clip_definitions = <<FallbackClip>>
        /\ NoClipsMessage \notin Range(exceptions)

\* C9: when extraction failed for every clip definition, so that
\* split_video returned an empty list, VideoPipeline.process_video ends
\* failed with the failure callback and never reports completed
C9_NoExtractedClipFailsJob ==
    (/\ variant = "video"
     /\ split_tasks # << >>
     /\ \A i \in 1..Len(split_tasks) : split_tasks[i] = "failed"
     /\ pc # "splitting") =>
        /\ result.status # "completed"
        /\ \A c \in 1..Len(webhook_calls) :
              webhook_calls[c].status # "completed"
        /\ pc = "done" =>
              /\ webhook_calls # << >>
              /\ webhook_calls[1].status = "failed"
              /\ raised = "PipelineError"

\* C10: create_clip_definitions emits no clip for a scene shorter than
\* min_duration, and every clip it emits, whole scene or part of a split
\* scene, lasts at least min_duration
C10_ClipsLastMinDuration ==
    pc = "seg_done" =>
        /\ \A c \in 1..Len(clip_definitions) :
              clip_definitions[c].end_time - clip_definitions[c].start_time
                  >= min_clip_duration
        /\ \A i \in 1..Len(scenes) :
              scenes[i].duration < min_clip_duration =>
                 /\ SceneClips(scenes, scenes[i], transcript_result,
                               min_clip_duration, max_clip_duration,
                               SourceId, 0) = << >>
                 /\ \A c \in 1..Len(clip_definitions) :
                       ~(/\ clip_definitions[c].start_time
                               >= scenes[i].start_time
                         /\ clip_definitions[c].end_time
                               <= scenes[i].end_time)

\* a short scene that is dropped next to a long scene that is split with
\* no transcript over it and whose remainder is too short to keep
C10_Witness ==
    /\ pc = "seg_done"
    /\ Len(scenes) = 2
    /\ scenes[1].duration < min_clip_duration
    /\ scenes[2].duration > max_clip_duration
    /\ OverlappingSegments(transcript_result, scenes[2].start_time,
                           scenes[2].end_time) = << >>
    /\ Len(clip_definitions) >= 1
    /\ Last(clip_definitions).end_time < scenes[2].end_time

\* C11: every clip create_clip_definitions emits lasts at most
\* max_duration, the sub-clips cut at transcript segment ends included
C11_ClipsLastAtMostMaxDuration ==
    pc = "seg_done" =>
        \A c \in 1..Len(clip_definitions) :
            clip_definitions[c].end_time - clip_definitions[c].start_time
                <= max_clip_duration

\* the tasks of split_video whose extraction and thumbnail both succeeded
DoneTasks == {i \in 1..Len(split_tasks) : split_tasks[i] = "done"}

\* the j-th of them in input order
NthDoneTask(j) ==
    CHOOSE i \in DoneTasks : Cardinality({k \in DoneTasks : k <= i}) = j

\* C12: when extraction or thumbnail generation fails for some clips,
\* split_video still returns normally, with exactly the clips whose
\* extraction and thumbnail both succeeded, in input order; a failed clip
\* takes no sibling with it
C12_SplitVideoKeepsSuccessfulClips ==
    (split_tasks # << >> /\ pc \notin {"split", "splitting"}) =>
        /\ "split" \notin Range(exceptions)
        /\ Len(split_tasks) = Len(clip_definitions)
        /\ \A i \in 1..Len(split_tasks) : split_tasks[i] \in {"done", "failed"}
        /\ Len(clip_results) = Cardinality(DoneTasks)
        /\ \A j \in 1..Len(clip_results) :
              LET clip == clip_definitions[NthDoneTask(j)]
              IN /\ clip_results[j].clip_id = clip.clip_id
                 /\ clip_results[j].start_time = clip.start_time
                 /\ clip_results[j].end_time = clip.end_time

\* four clips: the first and the third failed, the second and the fourth
\* are returned
C12_Witness ==
    /\ pc = "read"
    /\ split_tasks = <<"failed", "done", "failed", "done">>
    /\ Len(clip_results) = 2

\* C13: at no time during split_video are more than max_concurrent
\* split_single_clip executions in progress, whatever the number of clips
\* and the interleaving of their tasks
C13_SplitConcurrencyBounded ==
    Cardinality(Splitting(split_tasks)) <= SPLIT_MAX_CONCURRENT

\* four clips: three are being split and the fourth waits for the semaphore
C13_Witness ==
    /\ pc = "splitting"
    /\ Len(split_tasks) = 4
    /\ Cardinality(Splitting(split_tasks)) = SPLIT_MAX_CONCURRENT
    /\ \E i \in 1..Len(split_tasks) : split_tasks[i] = "waiting"

\* the upload_file calls of upload_clips that are in progress
RunningUploads ==
    {k \in 1..Len(upload_tasks) : upload_tasks[k].status = "running"}

\* C14: every batch stage keeps the number of external operations that run
\* at the same time at or below a fixed cap, however many clips the job
\* has: 3 for extraction, and for the uploads of upload_clips the 5 that
\* the other uploader of the program allows
C14_BatchStagesAreCapped ==
    /\ Cardinality(Splitting(split_tasks)) <= SPLIT_MAX_CONCURRENT
    /\ variant = "video" =>
          Cardinality(RunningUploads) <= STREAM_UPLOAD_CONCURRENT

\* a group as compared in C15: its type and its set of members
GroupSet(gs) ==
    {<<gs[g].group_type, Range(gs[g].clip_ids)>> : g \in 1..Len(gs)}

\* the list with the elements at positions i and j exchanged
Swap(seq, i, j) == [seq EXCEPT ![i] = seq[j], ![j] = seq[i]]

\* the clips joined to the clips of S by a chain of pairs of the type
RECURSIVE Reachable(_, _)
Reachable(S, group_type) ==
    LET more == S \cup
                UNION {Adjacent(TypedPairs(pairs, group_type), x) : x \in S}
    IN IF more = S THEN S ELSE Reachable(more, group_type)

GroupTypes == {"duplicate", "multiple_takes", "same_topic"}

\* the clips that occur in a pair of the type
TypedClips(group_type) ==
    UNION {{pairs[i].clip_id_1, pairs[i].clip_id_2} :
              i \in {j \in 1..Len(pairs) : PairType(pairs[j]) = group_type}}

\* C15: build_groups returns, for pairs of one type that connect a set of
\* clips, exactly one group of that type with all those clips, and the set
\* of groups (type and members) is the same for every ordering of the pairs
C15_GroupsAreConnectedSets ==
    pc = "grouped" =>
        /\ GroupSet(groups) =
              UNION {{<<t, Reachable({x}, t)>> : x \in TypedClips(t)} :
                        t \in GroupTypes}
              \ {<<t, {x}>> : t \in GroupTypes, x \in 1..MaxGroupClips}
        /\ \A i, j \in 1..Len(pairs) : \A set_order \in SetOrders :
              GroupSet(BuildGroups(Swap(pairs, i, j), set_order))
                  = GroupSet(groups)

\* three clips, each pair of them at 0.97, the pairs not in clip order: one
\* duplicate group of the three
C15_Witness ==
    /\ pc = "grouped"
    /\ Len(pairs) = 3
    /\ \A i \in 1..3 : pairs[i].similarity = 97
    /\ {{pairs[i].clip_id_1, pairs[i].clip_id_2} : i \in 1..3}
          = {{1, 2}, {1, 3}, {2, 3}}
    /\ pairs[1].clip_id_1 = 2
    /\ GroupSet(groups) = {<<"duplicate", {1, 2, 3}>>}

\* C16: every group build_groups returns has at least 2 clip ids, all
\* different, its representative is one of them, and no clip is in two
\* groups of the same type
C16_GroupsAreWellFormed ==
    pc = "grouped" =>
        /\ \A g \in 1..Len(groups) :
              /\ Len(groups[g].clip_ids) >= 2
              /\ \A a, b \in 1..Len(groups[g].clip_ids) :
                    a # b => groups[g].clip_ids[a] # groups[g].clip_ids[b]
              /\ groups[g].representative_clip_id
                    \in Range(groups[g].clip_ids)
        /\ \A g, h \in 1..Len(groups) :
              (g # h /\ groups[g].group_type = groups[h].group_type) =>
                 Range(groups[g].clip_ids) \cap Range(groups[h].clip_ids) = {}

\* two groups of different types that share a clip: the clip is in one
\* group of each type and in no second group of either
C16_Witness ==
    /\ pc = "grouped"
    /\ Len(groups) = 2
    /\ groups[1].group_type # groups[2].group_type
    /\ Range(groups[1].clip_ids) \cap Range(groups[2].clip_ids) # {}
    /\ groups[1].representative_clip_id # groups[2].representative_clip_id

\* C17: classify_pair returns duplicate at 0.95 and above; otherwise
\* multiple_takes at 0.85 and above when the clips are from the same source
\* and start at most 120 s apart; otherwise same_topic at 0.75 and above;
\* otherwise no type. A pair below 0.85 or from different sources is never
\* multiple_takes
C17_ClassifyPairFollowsThresholds ==
    pc = "classified" =>
        LET s == pairs[1].similarity
            near == pairs[1].start_time_1 - pairs[1].start_time_2
                       \in (0 - 120)..120
            takes == s >= 85 /\ same_source /\ near
        IN /\ s >= 95 => pair_types[1] = "duplicate"
           /\ (s < 95 /\ takes) => pair_types[1] = "multiple_takes"
           /\ (s < 95 /\ ~takes /\ s >= 75) => pair_types[1] = "same_topic"
           /\ s < 75 => pair_types[1] = "none"
           /\ (s < 85 \/ ~same_source) => pair_types[1] # "multiple_takes"

\* a pair at 0.80 from different sources, 5 seconds apart: same_topic
C17_Witness ==
    /\ pc = "classified"
    /\ pairs[1].similarity = 80
    /\ ~same_source
    /\ pairs[1].start_time_2 - pairs[1].start_time_1 = 5
    /\ pair_types = <<"same_topic">>

\* C18: generate_embeddings makes a ClipEmbedding for exactly the clips
\* whose transcript is not empty: an empty transcript is never sent to the
\* embedding service and its clip gets no embedding
C18_EmbeddingsOnlyForTranscribedClips ==
    /\ \A r \in 1..Len(embedding_requests) :
          \A i \in 1..Len(embedding_requests[r].texts) :
             embedding_requests[r].texts[i] # << >>
    /\ pc = "embedded" =>
          {embeddings[i].clip_id : i \in 1..Len(embeddings)}
             = {clip_results[i].clip_id :
                   i \in {j \in 1..Len(clip_results) :
                             clip_results[j].transcript # << >>}}

\* the responses that make an attempt of tag_clip raise
RaisingResponses == {"not_an_object", "api_error"}

\* C19: tag_clips returns one TagResult per clip, in the order of the
\* clips; a clip whose response is malformed, or whose call still fails at
\* its last attempt, gets b_roll at 0.3 or 0.1; tag_clips does not raise and
\* the result of every other clip is what its own responses give
C19_TagClipsAlwaysReturnsOneResultPerClip ==
    /\ raised = "none"
    /\ pc = "tagged" =>
          /\ Len(tag_results) = Len(clip_results)
          /\ \A i \in 1..Len(clip_results) :
                LET responses == tag_tasks[i].responses
                    n == Len(responses)
                    r == tag_results[i]
                IN /\ r.clip_id = clip_results[i].clip_id
                   /\ n = 0 =>
                         r.primary_tag = "b_roll" /\ r.primary_confidence = 90
                   /\ (n > 0 /\ responses[n] = "valid") =>
                         r.primary_tag = "hook" /\ r.primary_confidence = 80
                   /\ (n > 0 /\ responses[n] = "invalid_json") =>
                         r.primary_tag = "b_roll" /\ r.primary_confidence = 30
                   /\ (n > 0 /\ responses[n] \in RaisingResponses) =>
                         /\ n = 3
                         /\ r.primary_tag = "b_roll"
                         /\ r.primary_confidence = 10

\* two clips: the first fails three times, the second is tagged at its
\* first attempt
C19_Witness ==
    /\ pc = "tagged"
    /\ Len(clip_results) = 2
    /\ tag_tasks[1].responses = <<"api_error", "not_an_object", "api_error">>
    /\ tag_tasks[2].responses = <<"valid">>
    /\ tag_results[1].primary_confidence = 10
    /\ tag_results[2].primary_tag = "hook"

\* the scenes longer than max_duration that no transcript segment overlaps
UntranscribedLongScenes ==
    {i \in 1..Len(scenes) :
        /\ scenes[i].duration > max_clip_duration
        /\ OverlappingSegments(transcript_result, scenes[i].start_time,
                               scenes[i].end_time) = << >>}

\* the clips create_clip_definitions makes of scene i
ClipsOfScene(i) ==
    SceneClips(scenes, scenes[i], transcript_result, min_clip_duration,
               max_clip_duration, SourceId, 0)

\* where the clips of scene i stop: the end of the last, or the start of
\* the scene when there is none
CoveredEnd(i) ==
    IF ClipsOfScene(i) = << >> THEN scenes[i].start_time
    ELSE Last(ClipsOfScene(i)).end_time

\* the clips of scene i are at most ceil(D / max_duration), each between
\* min_duration and max_duration long, laid end to end from the start of
\* the scene, all among the clips returned, and what is left of the scene
\* after them is shorter than min_duration
SplitsEvenlyDroppingRemainder(i) ==
    LET cs == ClipsOfScene(i)
    IN /\ Len(cs) <= (scenes[i].duration + max_clip_duration - 1)
                         \div max_clip_duration
       /\ \A k \in 1..Len(cs) :
             /\ cs[k].end_time - cs[k].start_time <= max_clip_duration
             /\ cs[k].end_time - cs[k].start_time >= min_clip_duration
             /\ cs[k].start_time =
                   IF k = 1 THEN scenes[i].start_time ELSE cs[k - 1].end_time
             /\ \E c \in 1..Len(clip_definitions) :
                   /\ clip_definitions[c].start_time = cs[k].start_time
                   /\ clip_definitions[c].end_time = cs[k].end_time
       /\ CoveredEnd(i) <= scenes[i].end_time
       /\ scenes[i].end_time - CoveredEnd(i) < min_clip_duration

\* C20: for min_duration <= max_duration, a scene of duration
\* D > max_duration that no transcript segment overlaps gives at most
\* ceil(D / max_duration) clips, each at most max_duration and at least
\* min_duration long, laid end to end from the scene start, and only a
\* final remainder shorter than min_duration is omitted
C20_NoTranscriptSplit ==
    (pc = "seg_done" /\ min_clip_duration <= max_clip_duration) =>
        \A i \in UntranscribedLongScenes : SplitsEvenlyDroppingRemainder(i)

\* a scene of more than twice max_duration with no transcript: two clips
\* of max_duration and a remainder that is dropped
C20_Witness ==
    /\ pc = "seg_done"
    /\ min_clip_duration <= max_clip_duration
    /\ Len(scenes) = 1
    /\ transcript_result = << >>
    /\ scenes[1].duration > 2 * max_clip_duration
    /\ Len(clip_definitions) = 2
    /\ clip_definitions[2].start_time = clip_definitions[1].end_time
    /\ clip_definitions[2].end_time < scenes[1].end_time

\* C20 as stated, for every min_duration and max_duration: with
\* min_duration > max_duration every piece of the scene is shorter than
\* min_duration and none is emitted
C20_NoTranscriptSplitForAnyDurations ==
    pc = "seg_done" =>
        \A i \in UntranscribedLongScenes : SplitsEvenlyDroppingRemainder(i)

\* the number a string of decimal digits writes
DigitValue(ch) == CHOOSE d \in 0..9 : Digit(d) = ch

RECURSIVE DecimalValue(_)
DecimalValue(digits) ==
    IF digits = << >> THEN 0
    ELSE 10 * DecimalValue(SubSeq(digits, 1, Len(digits) - 1))
            + DigitValue(digits[Len(digits)])

ClipIdPrefix == SourceId \o <<"_", "c", "l", "i", "p", "_">>

TranscribedLongScenes ==
    {i \in 1..Len(scenes) :
        /\ scenes[i].duration > max_clip_duration
        /\ OverlappingSegments(transcript_result, scenes[i].start_time,
                               scenes[i].end_time) # << >>}

\* the transcript segments in range of a sub-clip that starts at
\* current_start: they start in [current_start, current_start +
\* max_duration) and end at or after current_start + min_duration
SegmentsInRange(current_start) ==
    {s \in 1..Len(transcript_result) :
        /\ transcript_result[s].start >= current_start
        /\ transcript_result[s].start < current_start + max_clip_duration
        /\ transcript_result[s].end >= current_start + min_clip_duration}

PunctuatedInRange(current_start) ==
    {s \in SegmentsInRange(current_start) :
        EndsWithTerminal(transcript_result[s].text)}

\* C24: a sub-clip of a split scene that has a punctuation-terminated
\* transcript segment in range ends at the end of such a segment; the end
\* of a segment without terminal punctuation is chosen only when there is
\* none
C24_SubClipsEndAtPunctuation ==
    pc = "seg_done" =>
        \A i \in TranscribedLongScenes :
            \A k \in 1..Len(ClipsOfScene(i)) :
                LET clip == ClipsOfScene(i)[k]
                IN PunctuatedInRange(clip.start_time) # {} =>
                      \E s \in PunctuatedInRange(clip.start_time) :
                          clip.end_time = transcript_result[s].end

\* C28: the sub-clips of a scene split at transcript segments reach to
\* less than min_duration before the end of the scene, also when the
\* transcript segments end before the scene does
C28_SegmentSplitCoversScene ==
    pc = "seg_done" =>
        \A i \in TranscribedLongScenes :
            scenes[i].end_time - CoveredEnd(i) < min_clip_duration

\* clip c of the clips returned lies inside scene i
ClipInScene(c, i) ==
    /\ scenes[i].start_time <= clip_definitions[c].start_time
    /\ clip_definitions[c].end_time <= scenes[i].end_time

\* C27: for scenes in time order that do not overlap, the clips
\* create_clip_definitions returns are in increasing time order and do not
\* overlap, each lies inside a scene (the one it was cut from, scenes being
\* disjoint), and the sub-clips of a split scene are contiguous from the
\* scene start
C27_ClipsAreOrderedInsideTheirScenes ==
    pc = "seg_done" =>
        \A c \in 1..Len(clip_definitions) :
            /\ clip_definitions[c].start_time < clip_definitions[c].end_time
            /\ c > 1 => clip_definitions[c - 1].end_time
                            <= clip_definitions[c].start_time
            /\ \E i \in 1..Len(scenes) : ClipInScene(c, i)
            /\ \A i \in 1..Len(scenes) :
                  (ClipInScene(c, i) /\ scenes[i].duration > max_clip_duration)
                  => clip_definitions[c].start_time =
                        IF c > 1 /\ ClipInScene(c - 1, i)
                        THEN clip_definitions[c - 1].end_time
                        ELSE scenes[i].start_time

\* a scene split at transcript segments into two sub-clips, the second
\* before the end of the scene, and a later scene with a clip of its own
C27_Witness ==
    /\ pc = "seg_done"
    /\ Len(scenes) = 2
    /\ 1 \in TranscribedLongScenes
    /\ Len(ClipsOfScene(1)) = 2
    /\ Len(ClipsOfScene(2)) = 1
    /\ Len(clip_definitions) = 3
    /\ clip_definitions[2].start_time = clip_definitions[1].end_time
    /\ clip_definitions[2].end_time <= clip_definitions[3].start_time

\* the input pairs of the type of a group whose clips are in the group
PairsOfGroup(group) ==
    {p \in 1..Len(pairs) :
        /\ PairType(pairs[p]) = group.group_type
        /\ {pairs[p].clip_id_1, pairs[p].clip_id_2}
              \subseteq Range(group.clip_ids)}

\* the earliest of them
EarliestPair(group) ==
    pairs[CHOOSE p \in PairsOfGroup(group) :
             \A q \in PairsOfGroup(group) : p <= q]

\* the pairs come as find_similar_pairs makes them: (i, j) with i < j, in
\* the order of i and then of j
InFindOrder ==
    \A p \in 1..Len(pairs) :
        /\ pairs[p].clip_id_1 < pairs[p].clip_id_2
        /\ p > 1 =>
              \/ pairs[p - 1].clip_id_1 < pairs[p].clip_id_1
              \/ /\ pairs[p - 1].clip_id_1 = pairs[p].clip_id_1
                 /\ pairs[p - 1].clip_id_2 < pairs[p].clip_id_2

\* type, members and representative of every group
Representatives(gs) ==
    {<<gs[g].group_type, Range(gs[g].clip_ids), gs[g].representative_clip_id>> :
        g \in 1..Len(gs)}

\* C30: the representative of a group build_groups returns is clip_id_1 of
\* the earliest input pair of the type of the group whose clips are in the
\* group, whatever the iteration order of the adjacency sets; for pairs in
\* the order find_similar_pairs makes them it is the member that comes
\* first in the embeddings list
C30_RepresentativeIsFirstOfEarliestPair ==
    pc = "grouped" =>
        /\ \A g \in 1..Len(groups) :
              /\ PairsOfGroup(groups[g]) # {}
              /\ groups[g].representative_clip_id
                    = EarliestPair(groups[g]).clip_id_1
              /\ InFindOrder =>
                    \A id \in Range(groups[g].clip_ids) :
                        groups[g].representative_clip_id <= id
        /\ \A set_order \in SetOrders :
              Representatives(BuildGroups(pairs, set_order))
                 = Representatives(groups)

\* the pairs (2, 3) and (1, 2) of one type, in that order: one group of
\* the three clips, represented by clip 2
C30_Witness ==
    /\ pc = "grouped"
    /\ Len(pairs) = 2
    /\ pairs[1].clip_id_1 = 2
    /\ pairs[2].clip_id_1 = 1
    /\ Len(groups) = 1
    /\ Range(groups[1].clip_ids) = {1, 2, 3}
    /\ groups[1].representative_clip_id = 2

\* the quality analysis stages of process_video
AnalysisStages == {"analyze_errors", "rate", "embed", "group"}

\* C23: in process_video error detection, quality rating, embedding
\* generation and grouping are over before the upload starts: no analysis
\* stage starts after the upload stage, and no analysis stage fails once
\* clips are uploaded
C23_AnalysisEndsBeforeUpload ==
    variant = "video" =>
        /\ \A i, j \in 1..Len(stages) :
              (i < j /\ stages[i] = "upload") => stages[j] \notin AnalysisStages
        /\ Range(exceptions) \cap AnalysisStages # {} => upload_results = << >>

\* the POSTs among the events of the call
PostsMade == {k \in 1..Len(call_events) : call_events[k].kind = "post"}

\* C22: call_webhook with retries = n makes at most n POSTs, stops at the
\* first status below 400 and returns True, returns False after exactly n
\* POSTs when all of them fail, and waits (2^attempt seconds) between two
\* consecutive POSTs and not after the last
C22_WebhookRetriesAndBacksOff ==
    variant = "webhook" =>
        /\ Cardinality(PostsMade) <= call_args.retries
        /\ \A k \in PostsMade :
              Delivered(call_events[k].outcome) =>
                 k = Len(call_events) /\ call_returned = "True"
        /\ call_returned = "True" =>
              /\ call_events # << >>
              /\ Last(call_events).kind = "post"
              /\ Delivered(Last(call_events).outcome)
        /\ call_returned = "False" =>
              /\ Cardinality(PostsMade) = call_args.retries
              /\ \A k \in PostsMade : ~Delivered(call_events[k].outcome)
        /\ \A k \in 1..Len(call_events) :
              IF call_events[k].kind = "post"
              THEN k > 1 => call_events[k - 1].kind = "sleep"
              ELSE /\ k > 1
                   /\ call_events[k - 1].kind = "post"
                   /\ call_events[k].seconds
                         = Pow2(call_events[k - 1].attempt)
        /\ call_returned # "none" =>
              (call_events # << >> => Last(call_events).kind = "post")

\* three attempts allowed: a 500, a request error, then a 399; two waits
\* of 1 and 2 seconds and True returned
C22_Witness ==
    /\ variant = "webhook"
    /\ call_args.retries = 3
    /\ Len(call_events) = 5
    /\ call_events[1] = PostEvent(0, Response(500))
    /\ call_events[2] = SleepEvent(1)
    /\ call_events[3] = PostEvent(1, RequestError)
    /\ call_events[4] = SleepEvent(2)
    /\ call_events[5] = PostEvent(2, Response(399))
    /\ call_returned = "True"

\* C25: the deduction for the pace never decreases as the words per minute
\* move away from the optimal band: for a < b <= 140 the deduction at a is
\* at least the one at b, and for 170 <= a < b the deduction at b is at
\* least the one at a
C25_WpmDeductionGrowsWithDistance ==
    (variant = "rate" /\ pc = "returned") =>
        LET a == call_args.words_per_minute
        IN \A b \in WpmValues :
              /\ (a < b /\ b <= OPTIMAL_WPM_MIN) =>
                    call_locals.wpm_deduction >= WpmDeduction(b)
              /\ (OPTIMAL_WPM_MAX <= b /\ b < a) =>
                    call_locals.wpm_deduction >= WpmDeduction(b)

\* create_multipart_upload has succeeded in the call followed
MultipartStarted ==
    /\ variant = "multipart"
    /\ call_events # << >>
    /\ call_events[1].kind = "create"
    /\ pc # "create"
    /\ call_locals.raised # "create_error"

\* the positions of the requests of one kind among those sent
RequestsOfKind(kind) ==
    {k \in 1..Len(call_events) : call_events[k].kind = kind}

\* the part numbers sent, in the order of sending
PartNumbersSent ==
    LET sent == SelectSeq(call_events, LAMBDA e : e.kind = "upload_part")
    IN [k \in 1..Len(sent) |-> sent[k].part_number]

\* the chunks of the file: file_size / MULTIPART_CHUNK_SIZE rounded up
ChunksOfFile ==
    (call_args.file_size + MULTIPART_CHUNK_SIZE - 1) \div MULTIPART_CHUNK_SIZE

\* parts go one at a time, numbered 1, 2, ... in file order; a call that
\* returns has completed with exactly the parts of the file in order and
\* has not aborted; a completed upload is never aborted as well
MultipartPartsAndCompletion ==
    /\ Cardinality(call_locals.in_flight) <= 1
    /\ PartNumbersSent = [k \in 1..Len(PartNumbersSent) |-> k]
    /\ Len(PartNumbersSent) <= ChunksOfFile
    /\ Cardinality(RequestsOfKind("complete")) <= 1
    /\ Cardinality(RequestsOfKind("abort")) <= 1
    /\ call_returned = "key" =>
          /\ Last(call_events).kind = "complete"
          /\ Len(Last(call_events).parts) = ChunksOfFile
          /\ Len(PartNumbersSent) = ChunksOfFile
          /\ \A k \in 1..ChunksOfFile :
                Last(call_events).parts[k].PartNumber = k
          /\ Last(call_events).parts = call_locals.parts
          /\ RequestsOfKind("abort") = {}
    /\ call_locals.error = "none" => RequestsOfKind("abort") = {}

\* a call that has ended by raising after a part or the completion failed
MultipartFailed == pc = "raised" /\ call_locals.error # "none"

C29_SplitLoopsAdvanceAndTerminate ==
    /\ [][(pc \in {"even", "segments"} /\ pc' = pc) =>
             call_locals'.current_start > call_locals.current_start]_vars
    /\ <>(pc = "returned")

\* the only segment of the scene starts with the scene and ends a sentence:
\* after the first clip no segment starts at or after current_start, and
\* the loop still went on to the end of the scene with two more clips
C29_Witness ==
    /\ variant = "split_loop"
    /\ pc = "returned"
    /\ Len(RelevantSegments) = 1
    /\ RelevantSegments[1].start = call_args.start_time
    /\ call_locals.segment_idx = 0
    /\ Len(call_locals.clips) = 3
    /\ call_locals.current_start = call_args.end_time

====
